---- MODULE Spec2Model ----
(***************************************************************************)
(* A model of the MySQL++ Query facade (template parser, parameter         *)
(* substitution, lock-guarded execution) and of the reference-counted      *)
(* result sets, as found in the revisions of the library kept in this      *)
(* repository:                                                             *)
(*   "lib"    src/lib/query.cpp        (SQLString, connection lock)        *)
(*   "trunk"  src/trunk/lib/query.cpp  (stringstream buffer, lock)         *)
(*   "v3"     src/unnamed/part_001     (SQLTypeAdapter, DBDriver, no lock) *)
(* Text is a sequence of one-character strings.                            *)
(***************************************************************************)
EXTENDS Integers, Sequences, FiniteSets, TLC

(***************************************************************************)
(* Bounds of the model.                                                    *)
(***************************************************************************)
\* Characters the caller inserts into the query buffer.
MaxBuf == 6
\* Parsed elements of a template.
MaxElems == 3
\* Values in a parameter list, and in the defaults.
MaxParms == 2
\* Characters in the buffer after a rendering.
MaxOut == 12
\* Calls that are in the driver at once.
MaxDepth == 2
\* Result objects.
MaxObj == 2
\* Result handles the driver hands out.
MaxRes == 2
\* The most rows a result set holds.
MaxRows == 2

Revs == {"lib", "trunk", "v3"}

(***************************************************************************)
(* Characters.                                                             *)
(***************************************************************************)
NUL == "NUL"
QUOTE == "'"
BSLASH == "\\"
Digits == <<"0", "1", "2", "3", "4", "5", "6", "7", "8", "9">>
Lower == {"a", "b", "c", "d", "e", "f", "g", "h", "i", "j", "k", "l", "m",
          "n", "o", "p", "q", "r", "s", "t", "u", "v", "w", "x", "y", "z"}
Upper == {"A", "B", "C", "D", "E", "F", "G", "H", "I", "J", "K", "L", "M",
          "N", "O", "P", "Q", "R", "S", "T", "U", "V", "W", "X", "Y", "Z"}

isdigit(c) == \E k \in 1..10 : Digits[k] = c
DigitVal(c) == (CHOOSE k \in 1..10 : Digits[k] = c) - 1
isalnum(c) == c \in Lower \/ c \in Upper \/ isdigit(c)
isalpha(c) == c \in Lower \/ c \in Upper

\* *s of a NUL-terminated copy of the text: the terminator past its end.
CharAt(s, i) == IF i >= 1 /\ i <= Len(s) THEN s[i] ELSE NUL

\* The C string held in a buffer: the text before its first NUL.
CStr(s) ==
    LET nuls == {i \in 1..Len(s) : s[i] = NUL}
    IN  IF nuls = {} THEN s
        ELSE SubSeq(s, 1, (CHOOSE i \in nuls : \A j \in nuls : i <= j) - 1)

\* signed char n = atoi(num): the value kept in eight bits, two's complement.
SChar(x) == LET m == x % 256 IN IF m >= 128 THEN m - 256 ELSE m

(***************************************************************************)
(* SQLString: the text and its three flags.                                *)
(***************************************************************************)
SQLString(str) ==
    [str |-> str, is_string |-> TRUE, dont_escape |-> FALSE, processed |-> FALSE]

SQLStringNum(digits) ==
    [str |-> digits, is_string |-> FALSE, dont_escape |-> FALSE, processed |-> FALSE]

\* The driver's escaping routine: a backslash before each quote and backslash.
RECURSIVE escape_string(_)
escape_string(s) ==
    IF s = <<>> THEN <<>>
    ELSE LET c == Head(s)
         IN  (IF c = QUOTE \/ c = BSLASH THEN <<BSLASH, c>> ELSE <<c>>)
             \o escape_string(Tail(s))

\* SQLQueryParms::bound(): TRUE for a call-site list ("p"), FALSE for the
\* facade's defaults ("def").
bound(c) == c = "p"

\* SQLTypeAdapter::quote_q() and escape_q() of revision v3.
quote_q(S) == S.is_string
escape_q(S) == S.is_string /\ ~S.dont_escape

(***************************************************************************)
(* pprepare(option, S, replace): [out |-> the text to insert,              *)
(*                                S   |-> the parameter afterwards].       *)
(***************************************************************************)
\* pprepare without its first test, if (S.processed) return &S.
pprepare_noguard(option, S, replace) ==
    IF option = "r" \/ (option = "q" /\ S.is_string)
    THEN LET ss == SQLString(<<QUOTE>> \o escape_string(S.str) \o <<QUOTE>>)
         IN  IF replace THEN [out |-> ss.str, S |-> [ss EXCEPT !.processed = TRUE]]
             ELSE [out |-> ss.str, S |-> S]
    ELSE IF option = "R" \/ (option = "Q" /\ S.is_string)
    THEN LET ss == SQLString(<<QUOTE>> \o S.str \o <<QUOTE>>)
         IN  IF replace THEN [out |-> ss.str, S |-> [ss EXCEPT !.processed = TRUE]]
             ELSE [out |-> ss.str, S |-> S]
    ELSE [out |-> S.str, S |-> IF replace THEN [S EXCEPT !.processed = TRUE] ELSE S]

\* pprepare with the q and Q branches taken whatever S.is_string says.
pprepare_any_type(option, S, replace) ==
    IF S.processed THEN [out |-> S.str, S |-> S]
    ELSE IF option = "r" \/ option = "q"
    THEN LET ss == SQLString(<<QUOTE>> \o escape_string(S.str) \o <<QUOTE>>)
         IN  IF replace THEN [out |-> ss.str, S |-> [ss EXCEPT !.processed = TRUE]]
             ELSE [out |-> ss.str, S |-> S]
    ELSE IF option = "R" \/ option = "Q"
    THEN LET ss == SQLString(<<QUOTE>> \o S.str \o <<QUOTE>>)
         IN  IF replace THEN [out |-> ss.str, S |-> [ss EXCEPT !.processed = TRUE]]
             ELSE [out |-> ss.str, S |-> S]
    ELSE [out |-> S.str, S |-> IF replace THEN [S EXCEPT !.processed = TRUE] ELSE S]

\* pprepare with option Q sent down the escaping branch of option q.
pprepare_Q_escapes(option, S, replace) ==
    IF S.processed THEN [out |-> S.str, S |-> S]
    ELSE IF option \in {"r", "R"} \/ (option \in {"q", "Q"} /\ S.is_string)
    THEN LET ss == SQLString(<<QUOTE>> \o escape_string(S.str) \o <<QUOTE>>)
         IN  IF replace THEN [out |-> ss.str, S |-> [ss EXCEPT !.processed = TRUE]]
             ELSE [out |-> ss.str, S |-> S]
    ELSE [out |-> S.str, S |-> IF replace THEN [S EXCEPT !.processed = TRUE] ELSE S]

\* pprepare that never writes the formatted value back into S.
pprepare_keeps_S(option, S, replace) ==
    IF S.processed THEN [out |-> S.str, S |-> S]
    ELSE pprepare_noguard(option, S, FALSE)

\* lib, trunk: Query::pprepare(char option, SQLString& S, bool replace)
pprepare(option, S, replace) ==
    IF S.processed THEN [out |-> S.str, S |-> S]
    ELSE IF option = "r" \/ (option = "q" /\ S.is_string)
    THEN LET ss == SQLString(<<QUOTE>> \o escape_string(S.str) \o <<QUOTE>>)
         IN  IF replace THEN [out |-> ss.str, S |-> [ss EXCEPT !.processed = TRUE]]
             ELSE [out |-> ss.str, S |-> S]
    ELSE IF option = "R" \/ (option = "Q" /\ S.is_string)
    THEN LET ss == SQLString(<<QUOTE>> \o S.str \o <<QUOTE>>)
         IN  IF replace THEN [out |-> ss.str, S |-> [ss EXCEPT !.processed = TRUE]]
             ELSE [out |-> ss.str, S |-> S]
    ELSE [out |-> S.str, S |-> IF replace THEN [S EXCEPT !.processed = TRUE] ELSE S]

\* v3: Query::pprepare(char option, SQLTypeAdapter& S, bool replace)
pprepare_v3(option, S, replace) ==
    IF S.processed THEN [out |-> S.str, S |-> S]
    ELSE IF option = "q"
    THEN LET temp == (IF quote_q(S) THEN <<QUOTE>> ELSE <<>>)
                     \o (IF escape_q(S) THEN escape_string(S.str) ELSE S.str)
                     \o (IF quote_q(S) THEN <<QUOTE>> ELSE <<>>)
             ss == SQLString(temp)
         IN  IF replace THEN [out |-> ss.str, S |-> [ss EXCEPT !.processed = TRUE]]
             ELSE [out |-> ss.str, S |-> S]
    ELSE IF option = "Q" /\ quote_q(S)
    THEN LET ss == SQLString(<<QUOTE>> \o S.str \o <<QUOTE>>)
         IN  IF replace THEN [out |-> ss.str, S |-> [ss EXCEPT !.processed = TRUE]]
             ELSE [out |-> ss.str, S |-> S]
    ELSE [out |-> S.str, S |-> IF replace THEN [S EXCEPT !.processed = TRUE] ELSE S]

(***************************************************************************)
(* Query::parse(): one left-to-right scan of the buffer's text.  The       *)
(* result extends the parsed elements and the two name maps it is given.   *)
(***************************************************************************)
SQLParseElement(before, option, num) ==
    [before |-> before, option |-> option, num |-> num]

OptionChars(rv) == IF rv = "v3" THEN {"q", "Q"} ELSE {"q", "Q", "r", "R"}

NameChar(rv, c) ==
    IF rv = "trunk" THEN isalpha(c) \/ c = "_" ELSE isalnum(c) \/ c = "_"

\* The first index at or after k whose character does not belong to a name.
RECURSIVE NameEnd(_, _, _)
NameEnd(rv, s, k) ==
    IF NameChar(rv, CharAt(s, k)) THEN NameEnd(rv, s, k + 1) ELSE k

\* atoi / strtol of the one to three digits at s[i..i+nd-1].
RECURSIVE atoi(_, _, _)
atoi(s, i, nd) ==
    IF nd = 0 THEN 0 ELSE atoi(s, i, nd - 1) * 10 + DigitVal(s[i + nd - 1])

\* The name pushed at the end of the vector, whatever the position.
SetName_appends(names, idx, name) == Append(names, name)

\* parsed_names_[idx] = name, after growing the vector to idx + 1 entries.
SetName(names, idx, name) ==
    LET grown == IF idx >= Len(names)
                 THEN names \o [k \in 1..(idx + 1 - Len(names)) |-> <<>>]
                 ELSE names
    IN  [grown EXCEPT ![idx + 1] = name]

\* parsed_nums_[name] = n.
SetNum(nums, name, n) ==
    [k \in (DOMAIN nums) \cup {name} |-> IF k = name THEN n ELSE nums[k]]

\* The scan with its last percent branch changed: a percent sign that starts
\* no placeholder is dropped instead of copied.
RECURSIVE parseFrom_drops_percent(_, _, _, _, _)
parseFrom_drops_percent(rv, s, i, str, st) ==
    IF CharAt(s, i) = NUL
    THEN [st EXCEPT !.elems = Append(@, SQLParseElement(str, " ", -1))]
    ELSE IF s[i] = "%"
    THEN LET c1 == CharAt(s, i + 1)
         IN  IF c1 = "%"
             THEN parseFrom_drops_percent(rv, s, i + 2, Append(str, c1), st)
             ELSE IF isdigit(c1)
             THEN LET nd == IF isdigit(CharAt(s, i + 2))
                            THEN (IF isdigit(CharAt(s, i + 3)) THEN 3 ELSE 2)
                            ELSE 1
                      nraw == atoi(s, i + 1, nd)
                      n == SChar(nraw)
                      j == i + 1 + nd
                      hasopt == CharAt(s, j) \in OptionChars(rv)
                      option == IF hasopt THEN s[j] ELSE " "
                      j2 == IF hasopt THEN j + 1 ELSE j
                      named == CharAt(s, j2) = ":"
                      k == NameEnd(rv, s, j2 + 1)
                      name == SubSeq(s, j2 + 1, k - 1)
                      j3 == IF named
                            THEN (IF CharAt(s, k) = ":" THEN k + 1 ELSE k)
                            ELSE j2
                      idx == IF rv = "trunk" THEN nraw ELSE n
                      st1 == IF ~named THEN st
                             ELSE IF idx < 0 THEN [st EXCEPT !.ub = TRUE]
                             ELSE [st EXCEPT !.names = SetName(@, idx, name),
                                             !.nums = SetNum(@, name, idx)]
                  IN  parseFrom_drops_percent(rv, s, j3, <<>>,
                          [st1 EXCEPT !.elems =
                               Append(@, SQLParseElement(str, option, n))])
             ELSE parseFrom_drops_percent(rv, s, i + 1, str, st)
    ELSE parseFrom_drops_percent(rv, s, i + 1, Append(str, s[i]), st)

\* The scan with its first percent branch changed: both characters of a
\* doubled percent sign are copied.
RECURSIVE parseFrom_keeps_both(_, _, _, _, _)
parseFrom_keeps_both(rv, s, i, str, st) ==
    IF CharAt(s, i) = NUL
    THEN [st EXCEPT !.elems = Append(@, SQLParseElement(str, " ", -1))]
    ELSE IF s[i] = "%"
    THEN LET c1 == CharAt(s, i + 1)
         IN  IF c1 = "%"
             THEN parseFrom_keeps_both(rv, s, i + 2, Append(Append(str, "%"), c1), st)
             ELSE IF isdigit(c1)
             THEN LET nd == IF isdigit(CharAt(s, i + 2))
                            THEN (IF isdigit(CharAt(s, i + 3)) THEN 3 ELSE 2)
                            ELSE 1
                      nraw == atoi(s, i + 1, nd)
                      n == SChar(nraw)
                      j == i + 1 + nd
                      hasopt == CharAt(s, j) \in OptionChars(rv)
                      option == IF hasopt THEN s[j] ELSE " "
                      j2 == IF hasopt THEN j + 1 ELSE j
                      named == CharAt(s, j2) = ":"
                      k == NameEnd(rv, s, j2 + 1)
                      name == SubSeq(s, j2 + 1, k - 1)
                      j3 == IF named
                            THEN (IF CharAt(s, k) = ":" THEN k + 1 ELSE k)
                            ELSE j2
                      idx == IF rv = "trunk" THEN nraw ELSE n
                      st1 == IF ~named THEN st
                             ELSE IF idx < 0 THEN [st EXCEPT !.ub = TRUE]
                             ELSE [st EXCEPT !.names = SetName(@, idx, name),
                                             !.nums = SetNum(@, name, idx)]
                  IN  parseFrom_keeps_both(rv, s, j3, <<>>,
                          [st1 EXCEPT !.elems =
                               Append(@, SQLParseElement(str, option, n))])
             ELSE parseFrom_keeps_both(rv, s, i + 1, Append(str, "%"), st)
    ELSE parseFrom_keeps_both(rv, s, i + 1, Append(str, s[i]), st)

RECURSIVE parseFrom(_, _, _, _, _)
parseFrom(rv, s, i, str, st) ==
    IF CharAt(s, i) = NUL
    THEN [st EXCEPT !.elems = Append(@, SQLParseElement(str, " ", -1))]
    ELSE IF s[i] = "%"
    THEN LET c1 == CharAt(s, i + 1)
         IN  IF c1 = "%"
             THEN parseFrom(rv, s, i + 2, Append(str, c1), st)
             ELSE IF isdigit(c1)
             THEN LET nd == IF isdigit(CharAt(s, i + 2))
                            THEN (IF isdigit(CharAt(s, i + 3)) THEN 3 ELSE 2)
                            ELSE 1
                      nraw == atoi(s, i + 1, nd)
                      n == SChar(nraw)
                      j == i + 1 + nd
                      hasopt == CharAt(s, j) \in OptionChars(rv)
                      option == IF hasopt THEN s[j] ELSE " "
                      j2 == IF hasopt THEN j + 1 ELSE j
                      named == CharAt(s, j2) = ":"
                      k == NameEnd(rv, s, j2 + 1)
                      name == SubSeq(s, j2 + 1, k - 1)
                      j3 == IF named
                            THEN (IF CharAt(s, k) = ":" THEN k + 1 ELSE k)
                            ELSE j2
                      idx == IF rv = "trunk" THEN nraw ELSE n
                      st1 == IF ~named THEN st
                             ELSE IF idx < 0 THEN [st EXCEPT !.ub = TRUE]
                             ELSE [st EXCEPT !.names = SetName(@, idx, name),
                                             !.nums = SetNum(@, name, idx)]
                  IN  parseFrom(rv, s, j3, <<>>,
                          [st1 EXCEPT !.elems =
                               Append(@, SQLParseElement(str, option, n))])
             ELSE parseFrom(rv, s, i + 1, Append(str, "%"), st)
    ELSE parseFrom(rv, s, i + 1, Append(str, s[i]), st)

\* parse() of text s on a facade holding elems, names and nums already.
\* ub: a name was stored at a negative index of parsed_names_.
parse(rv, s, elems, names, nums) ==
    parseFrom(rv, s, 1, <<>>,
              [elems |-> elems, names |-> names, nums |-> nums, ub |-> FALSE])

(***************************************************************************)
(* The stream buffer: its characters and the put position.  An insertion   *)
(* writes at the put position, over what is there, and extends the buffer  *)
(* past its end.                                                           *)
(***************************************************************************)
Put(st, text) ==
    LET n == IF st.pp + Len(text) > Len(st.buf)
             THEN st.pp + Len(text) ELSE Len(st.buf)
    IN  [buf |-> [i \in 1..n |->
                    IF i > st.pp /\ i <= st.pp + Len(text)
                    THEN text[i - st.pp] ELSE st.buf[i]],
         pp |-> st.pp + Len(text)]

\* sbuffer_.str(""): the buffer is emptied.
str_empty(st) == [buf |-> <<>>, pp |-> 0]

\* seekg(0, beg); seekp(0, beg): the put position returns to the start and
\* the characters stay.
seekp_begin(st) == [buf |-> st.buf, pp |-> 0]

\* *this << std::ends
ends(st) == Put(st, <<NUL>>)

ERROR_TEXT == <<" ", "E", "R", "R", "O", "R">>

(***************************************************************************)
(* Query::proc(p).  The result holds the buffer, the two parameter lists   *)
(* as the pass leaves them, err (BadParamCount was thrown), and, for the   *)
(* properties, the text the pass inserted (emitted) and the list each      *)
(* placeholder was resolved from (src).                                    *)
(***************************************************************************)
proc_begin(rv, st) == IF rv = "trunk" THEN seekp_begin(st) ELSE str_empty(st)

\* num >= 0 (lib, v3); num != -1 (trunk).
is_placeholder(rv, num) == IF rv = "trunk" THEN num # -1 ELSE num >= 0

\* The defaults consulted before the call-site list.
resolve_defaults_first(num, p, d) ==
    IF num < Len(d) THEN "def" ELSE IF num < Len(p) THEN "p" ELSE "none"

\* Which list position num is taken from.
resolve(num, p, d) ==
    IF num < Len(p) THEN "p" ELSE IF num < Len(d) THEN "def" ELSE "none"

PPrepare(rv, option, S, replace) ==
    IF rv = "v3" THEN pprepare_v3(option, S, replace)
    ELSE pprepare(option, S, replace)

RECURSIVE procFrom(_, _, _, _)
procFrom(rv, elems, i, acc) ==
    IF i > Len(elems) THEN acc
    ELSE LET e == elems[i]
             st1 == Put(acc.st, e.before)
             em1 == acc.emitted \o e.before
         IN  IF ~is_placeholder(rv, e.num)
             THEN procFrom(rv, elems, i + 1,
                           [acc EXCEPT !.st = st1, !.emitted = em1])
             ELSE IF e.num < 0
             THEN \* trunk only: (*c)[num] with a negative num reads outside
                  \* the list; the pass is marked and goes no further.
                  [acc EXCEPT !.st = st1, !.emitted = em1,
                              !.src = Append(@, "ub")]
             ELSE LET c == resolve(e.num, acc.p, acc.d)
                  IN  IF c = "none"
                      THEN [acc EXCEPT !.st = Put(st1, ERROR_TEXT),
                                       !.emitted = em1 \o ERROR_TEXT,
                                       !.src = Append(@, c),
                                       !.err = TRUE]
                      ELSE LET param == IF c = "p" THEN acc.p[e.num + 1]
                                        ELSE acc.d[e.num + 1]
                               r == PPrepare(rv, e.option, param, bound(c))
                           IN  procFrom(rv, elems, i + 1,
                                 [acc EXCEPT
                                    !.st = Put(st1, r.out),
                                    !.emitted = em1 \o r.out,
                                    !.src = Append(@, c),
                                    !.p = IF c = "p"
                                          THEN [@ EXCEPT ![e.num + 1] = r.S]
                                          ELSE @,
                                    !.d = IF c = "def"
                                          THEN [@ EXCEPT ![e.num + 1] = r.S]
                                          ELSE @])

proc(rv, st, elems, p, d) ==
    procFrom(rv, elems, 1,
             [st |-> proc_begin(rv, st), p |-> p, d |-> d,
              emitted |-> <<>>, src |-> <<>>, err |-> FALSE])

\* str(p) calling proc(p) whether or not the query was parsed.
str_unconditional(rv, st, elems, p, d) ==
    LET r == proc(rv, st, elems, p, d)
        st1 == IF rv = "trunk" /\ ~r.err THEN ends(r.st) ELSE r.st
    IN  [st |-> st1, p |-> r.p, d |-> r.d, err |-> r.err, ran |-> TRUE,
         emitted |-> r.emitted, src |-> r.src, procbuf |-> r.st.buf,
         text |-> st1.buf]

(***************************************************************************)
(* Query::str(p): proc(p) when the query is a template, then the buffer's  *)
(* text.  Revision trunk appends std::ends before it returns the text.     *)
(* ran: proc was called; procbuf: the buffer as proc left it.              *)
(***************************************************************************)
str(rv, st, elems, p, d) ==
    IF elems = <<>>
    THEN LET st1 == IF rv = "trunk" THEN ends(st) ELSE st
         IN  [st |-> st1, p |-> p, d |-> d, err |-> FALSE, ran |-> FALSE,
              emitted |-> <<>>, src |-> <<>>, procbuf |-> <<>>,
              text |-> st1.buf]
    ELSE LET r == proc(rv, st, elems, p, d)
             st1 == IF rv = "trunk" /\ ~r.err THEN ends(r.st) ELSE r.st
         IN  [st |-> st1, p |-> r.p, d |-> r.d, err |-> r.err, ran |-> TRUE,
              emitted |-> r.emitted, src |-> r.src, procbuf |-> r.st.buf,
              text |-> st1.buf]

(***************************************************************************)
(* State.                                                                  *)
(***************************************************************************)
VARIABLES
    rev,                \* the revision of the library the facade runs
    te,                 \* OptionalExceptions::throw_exceptions()
    sbuffer_,           \* the characters of the query buffer
    pp,                 \* the buffer's put position
    parse_elems_,       \* parsed template segments
    parsed_names_,      \* position -> name
    parsed_nums_,       \* name -> position
    template_defaults,  \* the facade's default parameter list
    processing_,        \* template_defaults.processing_, the recursion guard
    copacetic_,         \* last-execution success flag
    locked,             \* the connection's lock, taken by Query::lock()
    parms,              \* the caller's SQLQueryParms object
    stack,              \* calls that have entered the driver and not returned
    wire,               \* the text the driver was handed since the query was last set up
    last,               \* what the call that completed last returned or threw
    plog,               \* what the last proc() pass did
    pass,               \* the passes made over parms since it was last set
    live,               \* result objects constructed and not destroyed
    result_,            \* each object's result_: the handle it counts, or 0
    refs_,              \* each handle's reference count
    freed,              \* each handle's number of mysql_free_result calls
    issued,             \* each handle's first holder and number of holders so far
    seen,               \* what the last read through an object found
    cur,                \* each handle's rows: how many, and the next to fetch
    exc,                \* each object's throw_exceptions()
    row,                \* what the last fetch_row() or at() returned
    fmt,                \* the last value handed to pprepare and what came back
    output_mode_,       \* an SsqlsBase object's output_mode_
    os,                 \* the lists inserted into the stream, oldest first
    asked               \* the mode accessor called last since the last insertion

qvars == <<rev, te, sbuffer_, pp, parse_elems_, parsed_names_, parsed_nums_,
           template_defaults, processing_, copacetic_, locked, parms, stack,
           wire, last, plog, pass>>

rvars == <<live, result_, refs_, freed, issued, seen, cur, exc, row>>

svars == <<output_mode_, os, asked>>

vars == <<qvars, rvars, fmt, svars>>

Buf == [buf |-> sbuffer_, pp |-> pp]

NoOutcome ==
    [op |-> "none", cause |-> "none", raised |-> "none", valid |-> FALSE,
     sent |-> FALSE]

Outcome(op, cause, raised, valid, sent) ==
    [op |-> op, cause |-> cause, raised |-> raised, valid |-> valid,
     sent |-> sent]

NoLog ==
    [ran |-> FALSE, err |-> FALSE, psize |-> 0, src |-> <<>>,
     emitted |-> <<>>, procbuf |-> <<>>, onparms |-> FALSE]

\* The record of a str(p) call r made with a list of psize parameters.
LogOf(r, psize, onparms) ==
    [ran |-> r.ran, err |-> r.err, psize |-> psize, src |-> r.src,
     emitted |-> r.emitted, procbuf |-> r.procbuf, onparms |-> onparms]

\* No row has been asked for yet.
NoCall == [kind |-> "none", via |-> "none", i |-> 0, obj |-> 0, from |-> 0]
NoRow ==
    [kind |-> "none", i |-> 0, obj |-> 0, via |-> "none", from |-> 0,
     prev |-> NoCall]

\* No value has been formatted yet.
NoFmt ==
    [S |-> SQLString(<<>>), arg |-> SQLString(<<>>), how |-> "none",
     replace |-> FALSE, out |-> <<>>]

NoPass == [n |-> 0, first |-> <<>>, latest |-> <<>>]

\* A completed pass over parms that inserted text emitted.
NextPass(ps, emitted) ==
    [n |-> IF ps.n = 0 THEN 1 ELSE 2,
     first |-> IF ps.n = 0 THEN emitted ELSE ps.first,
     latest |-> emitted]

\* Parameter values a caller supplies: a string that needs escaping and a
\* number.
Vals == {SQLString(<<QUOTE>>), SQLStringNum(<<"7">>)}

\* Default values a caller stores on the facade.
DefVals == {SQLString(<<"d">>)}

Init ==
    /\ rev \in Revs
    /\ te \in BOOLEAN
    /\ sbuffer_ = <<>>
    /\ pp = 0
    /\ parse_elems_ = <<>>
    /\ parsed_names_ = <<>>
    /\ parsed_nums_ = <<>>
    /\ template_defaults = <<>>
    /\ processing_ = FALSE
    /\ copacetic_ = TRUE
    /\ locked = FALSE
    /\ parms = <<>>
    /\ stack = <<>>
    /\ wire = <<>>
    /\ last = NoOutcome
    /\ plog = NoLog
    /\ pass = NoPass
    /\ live = [o \in 0..MaxObj |-> FALSE]
    /\ result_ = [o \in 0..MaxObj |-> 0]
    /\ refs_ = [h \in 1..MaxRes |-> 0]
    /\ freed = [h \in 1..MaxRes |-> 0]
    /\ issued = [h \in 1..MaxRes |-> [by |-> 0, shares |-> 0]]
    /\ seen = [obj |-> 0, h |-> 0, dangling |-> FALSE]
    /\ cur = [h \in 1..MaxRes |-> [n |-> 0, next |-> 0]]
    /\ exc = [o \in 0..MaxObj |-> TRUE]
    /\ row = NoRow
    /\ fmt = NoFmt
    /\ output_mode_ = "om_value_list"
    /\ os = <<>>
    /\ asked = "none"

(***************************************************************************)
(* The caller's steps between executions.                                  *)
(***************************************************************************)
\* query << t, while the caller builds the query text (before parse()).
Insert(t) ==
    /\ stack = <<>>
    /\ parse_elems_ = <<>>
    /\ Len(Put(Buf, t).buf) <= MaxBuf
    /\ sbuffer_' = Put(Buf, t).buf
    /\ pp' = Put(Buf, t).pp
    /\ last' = NoOutcome
    /\ wire' = <<>>
    /\ plog' = NoLog
    /\ UNCHANGED <<rvars, fmt, svars, rev, te, parse_elems_, parsed_names_, parsed_nums_,
                   template_defaults, processing_, copacetic_, locked,
                   parms, stack, pass>>

\* preview_char(): the text parse() reads, and the buffer it leaves.
\* Revision trunk appends std::ends, reads up to it and steps the put
\* position back onto it; the other revisions copy the text.
preview_char(rv, st) ==
    IF rv = "trunk"
    THEN LET st1 == ends(st)
         IN  [s |-> CStr(st1.buf), st |-> [buf |-> st1.buf, pp |-> st1.pp - 1]]
    ELSE [s |-> st.buf, st |-> st]

\* query.parse(), called once per template: on a facade with no parsed
\* elements.  (An empty text puts revision trunk's stream in its fail state,
\* which the model leaves out.)
Parse ==
    /\ stack = <<>>
    /\ parse_elems_ = <<>>
    /\ rev = "trunk" => CStr(sbuffer_) # <<>>
    /\ \E pv \in {preview_char(rev, Buf)} :
         \E r \in {parse(rev, pv.s, parse_elems_, parsed_names_,
                          parsed_nums_)} :
           /\ Len(r.elems) <= MaxElems
           /\ ~r.ub
           /\ parse_elems_' = r.elems
           /\ parsed_names_' = r.names
           /\ parsed_nums_' = r.nums
           /\ sbuffer_' = pv.st.buf
           /\ pp' = pv.st.pp
    /\ last' = NoOutcome
    /\ wire' = <<>>
    /\ plog' = NoLog
    /\ pass' = NoPass
    /\ UNCHANGED <<rvars, fmt, svars, rev, te, template_defaults, processing_, copacetic_,
                   locked, parms, stack>>

\* reset() without its last statement, template_defaults.clear().
reset_keeps_defaults(st, elems, d) ==
    [st |-> [buf |-> <<>>, pp |-> 0], elems |-> <<>>, d |-> d]

\* What reset() leaves of the buffer, the parsed elements and the defaults.
reset(st, elems, d) ==
    [st |-> [buf |-> <<>>, pp |-> 0], elems |-> <<>>, d |-> <<>>]

\* query.reset() that empties the two name maps as well.
Reset_clears_names ==
    /\ stack = <<>>
    /\ LET r == reset(Buf, parse_elems_, template_defaults)
       IN  /\ sbuffer_' = r.st.buf
           /\ pp' = r.st.pp
           /\ parse_elems_' = r.elems
           /\ template_defaults' = r.d
    /\ last' = NoOutcome
    /\ wire' = <<>>
    /\ plog' = NoLog
    /\ pass' = NoPass
    /\ parsed_names_' = <<>>
    /\ parsed_nums_' = <<>>
    /\ UNCHANGED <<rvars, fmt, svars, rev, te, processing_, copacetic_, locked,
                   parms, stack>>

\* query.reset()
Reset ==
    /\ stack = <<>>
    /\ LET r == reset(Buf, parse_elems_, template_defaults)
       IN  /\ sbuffer_' = r.st.buf
           /\ pp' = r.st.pp
           /\ parse_elems_' = r.elems
           /\ template_defaults' = r.d
    /\ last' = NoOutcome
    /\ wire' = <<>>
    /\ plog' = NoLog
    /\ pass' = NoPass
    /\ UNCHANGED <<rvars, fmt, svars, rev, te, parsed_names_, parsed_nums_, processing_,
                   copacetic_, locked, parms, stack>>

\* query.def << v: one more default value.
AddDefault(v) ==
    /\ stack = <<>>
    /\ Len(template_defaults) < MaxParms
    /\ template_defaults' = Append(template_defaults, v)
    /\ last' = NoOutcome
    /\ wire' = <<>>
    /\ plog' = NoLog
    /\ pass' = NoPass
    /\ UNCHANGED <<rvars, fmt, svars, rev, te, sbuffer_, pp, parse_elems_, parsed_names_,
                   parsed_nums_, processing_, copacetic_, locked, parms,
                   stack>>

\* p << v: one more value in the caller's parameter list.
AddParm(v) ==
    /\ stack = <<>>
    /\ Len(parms) < MaxParms
    /\ parms' = Append(parms, v)
    /\ last' = NoOutcome
    /\ wire' = <<>>
    /\ plog' = NoLog
    /\ pass' = NoPass
    /\ UNCHANGED <<rvars, fmt, svars, rev, te, sbuffer_, pp, parse_elems_, parsed_names_,
                   parsed_nums_, template_defaults, processing_, copacetic_,
                   locked, stack>>

\* p = SQLQueryParms(): the caller starts a new parameter list.
NewParms ==
    /\ stack = <<>>
    /\ parms # <<>>
    /\ parms' = <<>>
    /\ last' = NoOutcome
    /\ wire' = <<>>
    /\ plog' = NoLog
    /\ pass' = NoPass
    /\ UNCHANGED <<rvars, fmt, svars, rev, te, sbuffer_, pp, parse_elems_, parsed_names_,
                   parsed_nums_, template_defaults, processing_, copacetic_,
                   locked, stack>>

\* query.str(p) with the caller's list.
Str ==
    /\ stack = <<>>
    /\ \E r \in {str(rev, Buf, parse_elems_, parms, template_defaults)} :
           /\ Len(r.st.buf) <= MaxOut
           /\ \A k \in 1..Len(r.src) : r.src[k] # "ub"
           /\ sbuffer_' = r.st.buf
           /\ pp' = r.st.pp
           /\ parms' = r.p
           /\ template_defaults' = r.d
           /\ plog' = LogOf(r, Len(parms), TRUE)
           /\ pass' = IF r.ran /\ ~r.err THEN NextPass(pass, r.emitted)
                      ELSE pass
           /\ last' = IF r.err
                      THEN Outcome("str", "param_count", "BadParamCount",
                                   FALSE, FALSE)
                      ELSE Outcome("str", "ok", "none", TRUE, FALSE)
    /\ UNCHANGED <<rvars, fmt, svars, rev, te, parse_elems_, parsed_names_, parsed_nums_,
                   processing_, copacetic_, locked, stack, wire>>

(***************************************************************************)
(* The connection's lock.  Revisions lib and trunk take it around every    *)
(* driver call of execute, store, use and store_next; revision v3 has no   *)
(* lock.                                                                   *)
(***************************************************************************)
\* Lockable::lock(): TRUE (failure) when the lock is already held, else the
\* lock is taken and the result is FALSE.
Lockable_lock(l) == [failed |-> l, locked |-> TRUE]

\* Lockable::unlock()
Lockable_unlock(l) == FALSE

\* A lock() that always succeeds.
Query_lock_reentrant(rv, l) ==
    IF rv = "v3" THEN [failed |-> FALSE, locked |-> l]
    ELSE [failed |-> FALSE, locked |-> TRUE]

\* Query::lock(): conn_->lock().
Query_lock(rv, l) ==
    IF rv = "v3" THEN [failed |-> FALSE, locked |-> l]
    ELSE Lockable_lock(l)

\* Query::unlock(): conn_->unlock().
Query_unlock(rv, l) == IF rv = "v3" THEN l ELSE Lockable_unlock(l)

ExecOps == {"execute", "store", "use", "store_next"}

\* The if (lock()) branch of revision lib with exceptions thrown whatever
\* the flag says.
lock_failed_lib_throws(op, te_, cop, l) ==
    [cop |-> IF op = "store_next" THEN cop ELSE FALSE,
     raised |-> "LockFailed",
     valid |-> FALSE, locked |-> l]

\* The if (lock()) branch of revision lib: copacetic_ = false (not in
\* store_next), then throw LockFailed() or return a default result.
lock_failed_lib(op, te_, cop, l) ==
    [cop |-> IF op = "store_next" THEN cop ELSE FALSE,
     raised |-> IF te_ THEN "LockFailed" ELSE "none",
     valid |-> FALSE, locked |-> l]

\* The if (lock()) branch of revision trunk: Success is false already, then
\* throw BadQuery("lock failed") or return a default result.
lock_failed_trunk(op, te_, cop, l) ==
    [cop |-> FALSE,
     raised |-> IF te_ THEN "BadQuery" ELSE "none",
     valid |-> FALSE, locked |-> l]

lock_failed(rv, op, te_, cop, l) ==
    IF rv = "trunk" THEN lock_failed_trunk(op, te_, cop, l)
    ELSE lock_failed_lib(op, te_, cop, l)

(***************************************************************************)
(* The driver.  One call of an operation into the driver answers with      *)
(*   qok: the statement ran (mysql_real_query returned 0),                 *)
(*   res: store_result / use_result returned a handle,                     *)
(*   en : the error number the connection reports afterwards,              *)
(*   ret: what next_result returned (0 more results, -1 none, 1 error).    *)
(***************************************************************************)
Answer(qok, res, en, ret) == [qok |-> qok, res |-> res, en |-> en, ret |-> ret]

DriverAnswers(op) ==
    IF op = "execute"
    THEN {Answer(TRUE, FALSE, 0, 0), Answer(FALSE, FALSE, 1, 0)}
    ELSE IF op = "store_next"
    THEN {Answer(TRUE, TRUE, 0, 0), Answer(TRUE, FALSE, 0, 0),
          Answer(TRUE, FALSE, 1, 0), Answer(TRUE, FALSE, 0, -1),
          Answer(TRUE, FALSE, 1, -1), Answer(TRUE, FALSE, 1, 1)}
    ELSE {Answer(TRUE, TRUE, 0, 0), Answer(TRUE, FALSE, 0, 0),
          Answer(TRUE, FALSE, 1, 0), Answer(FALSE, FALSE, 1, 0)}

\* What happened in the driver, in the words of the outcome record.
Cause(op, o) ==
    IF op = "store_next" /\ o.ret < 0
    THEN (IF o.en = 0 THEN "end_of_results" ELSE "end_with_error")
    ELSE IF op = "store_next" /\ o.ret > 0 THEN "next_failed"
    ELSE IF ~o.qok THEN "query_failed"
    ELSE IF op = "execute" \/ o.res THEN "ok"
    ELSE IF o.en = 0 THEN "empty"
    ELSE "result_failed"

\* DBDriver::result_empty(): no result set and no error pending.
result_empty(o) == o.en = 0

(***************************************************************************)
(* What each operation does once the driver has answered:                  *)
(* [cop |-> copacetic_, raised, valid |-> the result's validity test,      *)
(*  unlock |-> unlock() was called].                                       *)
(***************************************************************************)
Done(cop, raised, valid, unlock) ==
    [cop |-> cop, raised |-> raised, valid |-> valid, unlock |-> unlock]

\* lib: execute(const char*, size_t) after the lock is taken.
execute_lib(te_, cop, o) ==
    IF o.qok THEN Done(TRUE, "none", TRUE, TRUE)
    ELSE IF te_ THEN Done(FALSE, "BadQuery", FALSE, TRUE)
    ELSE Done(FALSE, "none", FALSE, TRUE)

\* store(const char*, size_t) of revision lib returning the result without
\* unlock().
store_lib_keeps_lock(te_, cop, o) ==
    IF o.qok /\ o.res THEN Done(TRUE, "none", TRUE, FALSE)
    ELSE IF o.en # 0 /\ te_ THEN Done(FALSE, "BadQuery", FALSE, TRUE)
    ELSE Done(FALSE, "none", FALSE, TRUE)

\* lib: store(const char*, size_t) after the lock is taken.
store_lib(te_, cop, o) ==
    IF o.qok /\ o.res THEN Done(TRUE, "none", TRUE, TRUE)
    ELSE IF o.en # 0 /\ te_ THEN Done(FALSE, "BadQuery", FALSE, TRUE)
    ELSE Done(FALSE, "none", FALSE, TRUE)

\* use(const char*, size_t) of revision lib returning a default result for
\* every failure.
use_lib_silent(te_, cop, o) ==
    IF o.qok /\ o.res THEN Done(TRUE, "none", TRUE, TRUE)
    ELSE Done(FALSE, "none", FALSE, TRUE)

\* lib: use(const char*, size_t) after the lock is taken.
use_lib(te_, cop, o) ==
    IF o.qok /\ o.res THEN Done(TRUE, "none", TRUE, TRUE)
    ELSE IF o.en # 0 /\ te_ THEN Done(FALSE, "BadQuery", FALSE, TRUE)
    ELSE Done(FALSE, "none", FALSE, TRUE)

\* store_next() of revision lib raising EndOfResultSets for every nonzero
\* answer of the next-result step.
store_next_lib_always_end(te_, cop, o) ==
    IF o.ret = 0
    THEN IF o.res THEN Done(cop, "none", TRUE, TRUE)
         ELSE IF o.en # 0 /\ te_ THEN Done(cop, "BadQuery", FALSE, TRUE)
         ELSE Done(cop, "none", FALSE, TRUE)
    ELSE IF te_ THEN Done(cop, "EndOfResultSets", FALSE, TRUE)
    ELSE Done(cop, "none", FALSE, TRUE)

\* lib: store_next() after the lock is taken.
store_next_lib(te_, cop, o) ==
    IF o.ret = 0
    THEN IF o.res THEN Done(cop, "none", TRUE, TRUE)
         ELSE IF o.en # 0 /\ te_ THEN Done(cop, "BadQuery", FALSE, TRUE)
         ELSE Done(cop, "none", FALSE, TRUE)
    ELSE IF te_
    THEN IF o.ret > 0 THEN Done(cop, "BadQuery", FALSE, TRUE)
         ELSE Done(cop, "EndOfResultSets", FALSE, TRUE)
    ELSE Done(cop, "none", FALSE, TRUE)

\* trunk: execute(const char*) after the lock is taken.
execute_trunk(te_, cop, o) ==
    IF o.qok THEN Done(TRUE, "none", TRUE, TRUE)
    ELSE IF te_ THEN Done(FALSE, "BadQuery", FALSE, TRUE)
    ELSE Done(FALSE, "none", FALSE, TRUE)

\* trunk: store(const char*) after the lock is taken.
store_trunk(te_, cop, o) ==
    IF o.qok /\ o.res THEN Done(TRUE, "none", TRUE, TRUE)
    ELSE IF te_ THEN Done(o.qok, "BadQuery", FALSE, TRUE)
    ELSE Done(o.qok, "none", FALSE, TRUE)

\* trunk: use(const char*) after the lock is taken.
use_trunk(te_, cop, o) ==
    IF o.qok /\ o.res THEN Done(TRUE, "none", TRUE, TRUE)
    ELSE IF te_ THEN Done(o.qok, "BadQuery", FALSE, TRUE)
    ELSE Done(o.qok, "none", FALSE, TRUE)

\* v3: execute(const char*, size_t).
execute_v3(te_, cop, o) ==
    IF o.qok THEN Done(TRUE, "none", TRUE, FALSE)
    ELSE IF te_ THEN Done(FALSE, "BadQuery", FALSE, FALSE)
    ELSE Done(FALSE, "none", FALSE, FALSE)

\* v3: store(const char*, size_t).
store_v3(te_, cop, o) ==
    IF o.qok /\ o.res THEN Done(TRUE, "none", TRUE, FALSE)
    ELSE LET c == result_empty(o)
         IN  IF c \/ ~te_ THEN Done(c, "none", FALSE, FALSE)
             ELSE Done(c, "BadQuery", FALSE, FALSE)

\* v3: use(const char*, size_t).
use_v3(te_, cop, o) ==
    IF o.qok /\ o.res THEN Done(TRUE, "none", TRUE, FALSE)
    ELSE LET c == result_empty(o)
         IN  IF c \/ ~te_ THEN Done(c, "none", FALSE, FALSE)
             ELSE Done(c, "BadQuery", FALSE, FALSE)

\* v3: store_next().
store_next_v3(te_, cop, o) ==
    IF o.ret = 0
    THEN IF o.res THEN Done(cop, "none", TRUE, FALSE)
         ELSE IF o.en # 0 /\ te_ THEN Done(cop, "BadQuery", FALSE, FALSE)
         ELSE Done(cop, "none", FALSE, FALSE)
    ELSE IF te_
    THEN IF o.ret > 0 THEN Done(cop, "BadQuery", FALSE, FALSE)
         ELSE IF o.en # 0 THEN Done(cop, "BadQuery", FALSE, FALSE)
         ELSE Done(cop, "none", FALSE, FALSE)
    ELSE Done(cop, "none", FALSE, FALSE)

Return(rv, op, te_, cop, o) ==
    CASE rv = "lib" /\ op = "execute" -> execute_lib(te_, cop, o)
      [] rv = "lib" /\ op = "store" -> store_lib(te_, cop, o)
      [] rv = "lib" /\ op = "use" -> use_lib(te_, cop, o)
      [] rv = "lib" /\ op = "store_next" -> store_next_lib(te_, cop, o)
      [] rv = "trunk" /\ op = "execute" -> execute_trunk(te_, cop, o)
      [] rv = "trunk" /\ op = "store" -> store_trunk(te_, cop, o)
      [] rv = "trunk" /\ op = "use" -> use_trunk(te_, cop, o)
      [] rv = "v3" /\ op = "execute" -> execute_v3(te_, cop, o)
      [] rv = "v3" /\ op = "store" -> store_v3(te_, cop, o)
      [] rv = "v3" /\ op = "use" -> use_v3(te_, cop, o)
      [] rv = "v3" /\ op = "store_next" -> store_next_v3(te_, cop, o)

(***************************************************************************)
(* Calls.  A call that gets past lock() is in the driver until             *)
(* DriverReturn; a call made meanwhile on the same thread (a reentrant     *)
(* call) finds the facade as the first one left it.                        *)
(***************************************************************************)
\* The call hands the rendering to the driver although proc() failed.
Thrown_sends(op, af, text, st, d) ==
    /\ Len(stack) < MaxDepth
    /\ sbuffer_' = st.buf
    /\ pp' = st.pp
    /\ template_defaults' = d
    /\ processing_' = IF af THEN TRUE ELSE processing_
    /\ stack' = Append(stack, [op |-> op, af |-> af])
    /\ wire' = text
    /\ last' = Outcome(op, "param_count", "none", FALSE, TRUE)
    /\ UNCHANGED <<parse_elems_, copacetic_, locked>>

\* BadParamCount leaving the call with the AutoFlag's flag still set.
Thrown_keeps_flag(op, af, text, st, d) ==
    /\ sbuffer_' = st.buf
    /\ pp' = st.pp
    /\ template_defaults' = d
    /\ processing_' = IF af THEN TRUE ELSE processing_
    /\ last' = Outcome(op, "param_count", "BadParamCount", FALSE, FALSE)
    /\ UNCHANGED <<parse_elems_, copacetic_, locked, stack, wire>>

\* proc() threw BadParamCount inside str(p): the exception leaves the call
\* (through the AutoFlag's destructor when af) before lock() and before the
\* driver is reached.  text is the partial rendering, st the buffer.
Thrown(op, af, text, st, d) ==
    /\ sbuffer_' = st.buf
    /\ pp' = st.pp
    /\ template_defaults' = d
    /\ processing_' = IF af THEN FALSE ELSE processing_
    /\ last' = Outcome(op, "param_count", "BadParamCount", FALSE, FALSE)
    /\ UNCHANGED <<parse_elems_, copacetic_, locked, stack, wire>>

\* op(const char* str, size_t len) up to its call into the driver, made
\* with the facade's buffer, elements and defaults as st, elems and d.
Call(op, text, af, st, elems, d) ==
    /\ sbuffer_' = st.buf
    /\ pp' = st.pp
    /\ parse_elems_' = elems
    /\ template_defaults' = d
    /\ \E lk \in {Query_lock(rev, locked)} :
           IF lk.failed
           THEN \E f \in {lock_failed(rev, op, te, copacetic_, locked)} :
                    /\ copacetic_' = f.cop
                    /\ locked' = f.locked
                    /\ processing_' = IF af THEN FALSE ELSE processing_
                    /\ last' = Outcome(op, "lock_failed", f.raised, f.valid,
                                       FALSE)
                    /\ UNCHANGED <<stack, wire>>
           ELSE /\ Len(stack) < MaxDepth
                /\ locked' = lk.locked
                /\ copacetic_' = IF rev = "trunk" THEN FALSE ELSE copacetic_
                /\ processing_' = IF af THEN TRUE ELSE processing_
                /\ stack' = Append(stack, [op |-> op, af |-> af])
                /\ wire' = IF op = "store_next" THEN wire ELSE text
                /\ last' = NoOutcome

\* The driver answers the innermost call, which then finishes.
DriverReturn ==
    /\ stack # <<>>
    /\ LET top == stack[Len(stack)]
       IN  \E o \in DriverAnswers(top.op) :
             \E r \in {Return(rev, top.op, te, copacetic_, o)},
                q \in {IF rev = "v3" /\ top.op # "store_next"
                           /\ parse_elems_ = <<>>
                        THEN reset(Buf, parse_elems_, template_defaults)
                        ELSE [st |-> Buf, elems |-> parse_elems_,
                              d |-> template_defaults]} :
                 /\ copacetic_' = r.cop
                 /\ locked' = IF r.unlock THEN Query_unlock(rev, locked)
                              ELSE locked
                 /\ processing_' = IF top.af THEN FALSE ELSE processing_
                 /\ sbuffer_' = q.st.buf
                 /\ pp' = q.st.pp
                 /\ parse_elems_' = q.elems
                 /\ template_defaults' = q.d
                 /\ last' = Outcome(top.op, Cause(top.op, o), r.raised,
                                    r.valid, TRUE)
    /\ stack' = SubSeq(stack, 1, Len(stack) - 1)
    /\ plog' = NoLog
    /\ UNCHANGED <<rvars, fmt, svars, rev, te, parsed_names_, parsed_nums_, parms, wire,
                   pass>>

\* lib: execute / store / use (const SQLString& s).
Scalar_lib(op, s) ==
    /\ rev = "lib"
    /\ IF Len(parse_elems_) = 2 /\ ~processing_
       THEN \E q \in {str(rev, Buf, parse_elems_, <<s>>, template_defaults)} :
                /\ Len(q.st.buf) <= MaxOut
                /\ plog' = LogOf(q, 1, FALSE)
                /\ IF q.err THEN Thrown(op, TRUE, q.text, q.st, q.d)
                   ELSE Call(op, q.text, TRUE, q.st, parse_elems_, q.d)
       ELSE /\ plog' = NoLog
            /\ Call(op, s.str, FALSE, Buf, parse_elems_, template_defaults)
    /\ UNCHANGED <<rvars, fmt, svars, rev, te, parsed_names_, parsed_nums_, parms, pass>>

\* lib, v3: store_next().
StoreNext ==
    /\ rev \in {"lib", "v3"}
    /\ plog' = NoLog
    /\ Call("store_next", <<>>, FALSE, Buf, parse_elems_, template_defaults)
    /\ UNCHANGED <<rvars, fmt, svars, rev, te, parsed_names_, parsed_nums_, parms, pass>>

\* trunk: execute / store / use (const char* str).
Text_trunk(op, s) ==
    /\ rev = "trunk"
    /\ plog' = NoLog
    /\ Call(op, CStr(s), FALSE, Buf, parse_elems_, template_defaults)
    /\ UNCHANGED <<rvars, fmt, svars, rev, te, parsed_names_, parsed_nums_, parms, pass>>

\* trunk: execute / store / use (parms& p): str(p, r) with r = RESET_QUERY
\* when the query is not a template, then op(const char*).
Parms_trunk(op, p) ==
    /\ rev = "trunk"
    /\ \E q \in {str(rev, Buf, parse_elems_, p, template_defaults)} :
         \E a \in {IF parse_elems_ = <<>>
                    THEN reset(q.st, parse_elems_, q.d)
                    ELSE [st |-> q.st, elems |-> parse_elems_, d |-> q.d]} :
           /\ Len(q.st.buf) <= MaxOut
           /\ plog' = LogOf(q, Len(p), FALSE)
           /\ IF q.err THEN Thrown(op, FALSE, q.text, q.st, q.d)
              ELSE Call(op, CStr(q.text), FALSE, a.st, a.elems, a.d)
    /\ UNCHANGED <<rvars, fmt, svars, rev, te, parsed_names_, parsed_nums_, parms, pass>>

\* v3: execute / store / use (SQLQueryParms& p), under an AutoFlag.
op_parms_v3(op, p) ==
    \E q \in {str(rev, Buf, parse_elems_, p, template_defaults)} :
        /\ Len(q.st.buf) <= MaxOut
        /\ plog' = LogOf(q, Len(p), FALSE)
        /\ IF q.err THEN Thrown(op, TRUE, q.text, q.st, q.d)
           ELSE Call(op, q.text, TRUE, q.st, parse_elems_, q.d)

Parms_v3(op, p) ==
    /\ rev = "v3"
    /\ op_parms_v3(op, p)
    /\ UNCHANGED <<rvars, fmt, svars, rev, te, parsed_names_, parsed_nums_, parms, pass>>

\* The scalar overload without its template branch: s is always the query.
Adapter_v3_as_text(op, s) ==
    /\ rev = "v3"
    /\ plog' = NoLog
    /\ Call(op, s.str, FALSE, Buf, parse_elems_, template_defaults)
    /\ UNCHANGED <<rvars, fmt, svars, rev, te, parsed_names_, parsed_nums_, parms, pass>>

\* v3: execute / store / use (const SQLTypeAdapter& s).
Adapter_v3(op, s) ==
    /\ rev = "v3"
    /\ IF Len(parse_elems_) = 2 /\ ~processing_
       THEN op_parms_v3(op, <<s>>)
       ELSE /\ plog' = NoLog
            /\ Call(op, s.str, FALSE, Buf, parse_elems_, template_defaults)
    /\ UNCHANGED <<rvars, fmt, svars, rev, te, parsed_names_, parsed_nums_, parms, pass>>

\* exec() that runs only while the connection's lock is free.
Exec_tests_lock(s) ==
    /\ ~locked
    /\ \E qok \in BOOLEAN :
         LET auto == rev = "v3" /\ parse_elems_ = <<>>
             q == IF auto THEN reset(Buf, parse_elems_, template_defaults)
                  ELSE [st |-> Buf, elems |-> parse_elems_,
                        d |-> template_defaults]
         IN  /\ copacetic_' = qok
             /\ sbuffer_' = q.st.buf
             /\ pp' = q.st.pp
             /\ parse_elems_' = q.elems
             /\ template_defaults' = q.d
             /\ last' = Outcome("exec",
                                IF qok THEN "ok" ELSE "query_failed",
                                IF ~qok /\ te THEN "BadQuery" ELSE "none",
                                qok, TRUE)
    /\ wire' = s
    /\ plog' = NoLog
    /\ UNCHANGED <<rvars, fmt, svars, rev, te, parsed_names_, parsed_nums_, processing_,
                   locked, parms, stack, pass>>

\* exec(const std::string& str): no lock, no result object.  It does not
\* wait for a call that is in the driver.
Exec(s) ==
    /\ \E qok \in BOOLEAN :
         LET auto == rev = "v3" /\ parse_elems_ = <<>>
             q == IF auto THEN reset(Buf, parse_elems_, template_defaults)
                  ELSE [st |-> Buf, elems |-> parse_elems_,
                        d |-> template_defaults]
         IN  /\ copacetic_' = qok
             /\ sbuffer_' = q.st.buf
             /\ pp' = q.st.pp
             /\ parse_elems_' = q.elems
             /\ template_defaults' = q.d
             /\ last' = Outcome("exec",
                                IF qok THEN "ok" ELSE "query_failed",
                                IF ~qok /\ te THEN "BadQuery" ELSE "none",
                                qok, TRUE)
    /\ wire' = s
    /\ plog' = NoLog
    /\ UNCHANGED <<rvars, fmt, svars, rev, te, parsed_names_, parsed_nums_, processing_,
                   locked, parms, stack, pass>>

(***************************************************************************)
(* Result objects.  A Result / ResUse object holds the driver's result     *)
(* handle in result_, a RefCountedPointer<MYSQL_RES>.  H is the heap:      *)
(* [live, result_, refs_, freed, issued].  Object 0 is the local tmp of    *)
(* swap(); handle 0 is the null pointer.                                   *)
(***************************************************************************)
Objs == 1..MaxObj
\* The number of rows a result set can have.
RowCounts == 0..MaxRows
Handles == 1..MaxRes
tmp == 0

Heap == [live |-> live, result_ |-> result_, refs_ |-> refs_,
         freed |-> freed, issued |-> issued]

\* A destroyer that never calls mysql_free_result().
Destroyer_leaks(fr, doomed) == fr

\* RefCountedPointerDestroyer<MYSQL_RES>::operator()(doomed)
Destroyer(fr, doomed) ==
    IF doomed # 0 THEN [fr EXCEPT ![doomed] = @ + 1] ELSE fr

\* RefCountedPointer: one more reference to h.
RCP_acquire(H, h) ==
    IF h = 0 THEN H
    ELSE [H EXCEPT !.refs_[h] = @ + 1,
                   !.issued[h].shares = IF @ < MaxObj THEN @ + 1 ELSE @]

\* RefCountedPointer: one reference to h less; the last one destroys h.
RCP_release(H, h) ==
    IF h = 0 THEN H
    ELSE IF H.refs_[h] = 1
    THEN [H EXCEPT !.refs_[h] = 0, !.freed = Destroyer(H.freed, h)]
    ELSE [H EXCEPT !.refs_[h] = @ - 1]

\* ResUse::ResUse(): an object with no handle.
ResUse_default(H, o) ==
    [H EXCEPT !.live[o] = TRUE, !.result_[o] = 0]

\* ResUse::ResUse(MYSQL_RES* result, bool te): the first reference to h.
ResUse_result(H, o, h) ==
    [H EXCEPT !.live[o] = TRUE, !.result_[o] = h, !.refs_[h] = 1,
              !.issued[h] = [by |-> o, shares |-> 1]]

\* Result::Result(MYSQL_RES* result, bool te)
Result_result(H, o, h) == ResUse_result(H, o, h)

\* ResUse::copy(other): result_ = other.result_.
copy(H, o, other) ==
    LET old == H.result_[o]
        new == H.result_[other]
        H1 == RCP_acquire(H, new)
    IN  [RCP_release(H1, old) EXCEPT !.result_[o] = new]

\* A copy constructor that takes the handle without counting it.
ResUse_copy_uncounted(H, o, other) ==
    [H EXCEPT !.live[o] = TRUE, !.result_[o] = H.result_[other]]

\* ResUse::ResUse(const ResUse& other), Result::Result(const Result& other)
ResUse_copy(H, o, other) ==
    copy(ResUse_default(H, o), o, other)

\* ResUse::operator=(const ResUse& other)
ResUse_assign(H, o, other) ==
    IF o = other THEN H ELSE copy(H, o, other)

\* ResUse::~ResUse(): result_ drops its reference.
ResUse_destroy(H, o) ==
    [RCP_release(H, H.result_[o]) EXCEPT !.live[o] = FALSE, !.result_[o] = 0]

\* swap(ResUse& x, ResUse& y), swap(Result& x, Result& y)
swap(H, x, y) ==
    LET H1 == ResUse_copy(H, tmp, x)
        H2 == ResUse_assign(H1, x, y)
        H3 == ResUse_assign(H2, y, tmp)
    IN  ResUse_destroy(H3, tmp)

\* ResUse::fetch_row(): what a read through object o finds.
fetch_row(H, o) ==
    IF H.result_[o] = 0
    THEN [obj |-> o, h |-> 0, dangling |-> FALSE]
    ELSE [obj |-> o, h |-> H.result_[o],
          dangling |-> H.freed[H.result_[o]] > 0]

NoRead == [obj |-> 0, h |-> 0, dangling |-> FALSE]

\* mysql_fetch_row(res): the row under the cursor, which then moves on, or
\* NULL (-1) past the last row.
mysql_fetch_row(c) ==
    IF c.next < c.n THEN [r |-> c.next, c |-> [c EXCEPT !.next = @ + 1]]
    ELSE [r |-> -1, c |-> c]

\* mysql_data_seek(res, offset)
mysql_data_seek(c, offset) == [c EXCEPT !.next = offset]

\* fetch_row() as the class comment describes it: past the last row it
\* throws when exceptions are enabled.
ResUse_fetch_row_throws_at_end(o, h, e, c) ==
    IF h = 0
    THEN [row |-> [kind |-> IF e THEN "UseQueryError" ELSE "empty",
                   i |-> 0, obj |-> o],
          c |-> c]
    ELSE LET f == mysql_fetch_row(c)
         IN  [row |-> IF f.r >= 0 THEN [kind |-> "row", i |-> f.r, obj |-> o]
                      ELSE [kind |-> IF e THEN "BadQuery" ELSE "empty",
                            i |-> 0, obj |-> o],
              c |-> f.c]

\* ResUse::fetch_row() through object o, whose handle is h (0: unset), whose
\* throw_exceptions() is e and whose rows are c.
ResUse_fetch_row(o, h, e, c) ==
    IF h = 0
    THEN [row |-> [kind |-> IF e THEN "UseQueryError" ELSE "empty",
                   i |-> 0, obj |-> o],
          c |-> c]
    ELSE LET f == mysql_fetch_row(c)
         IN  [row |-> IF f.r >= 0 THEN [kind |-> "row", i |-> f.r, obj |-> o]
                      ELSE [kind |-> "empty", i |-> 0, obj |-> o],
              c |-> f.c]

\* at(i) as a read of a snapshot: row i, the cursor left where it was.
Result_at_restores(o, h, e, c, i) ==
    [row |-> ResUse_fetch_row(o, h, e, mysql_data_seek(c, i)).row, c |-> c]

\* at(i) without the seek: the row under the cursor.
Result_at_noseek(o, h, e, c, i) == ResUse_fetch_row(o, h, e, c)

\* Result::at(i): data_seek(i); return fetch_row();
Result_at(o, h, e, c, i) == ResUse_fetch_row(o, h, e, mysql_data_seek(c, i))

\* Result::size(), num_rows(): the number of rows of an initialized result,
\* 0 without one.
Result_size(h, c) == IF h # 0 THEN c.n ELSE 0

\* Dereferencing a subscript_iterator at index i: the container's
\* operator[](i).
subscript_iterator_deref(o, h, e, c, i) == Result_at(o, h, e, c, i)

\* What a caller got back from a row access: the row r, the member it
\* called, the cursor position the call found, and the indexed access made
\* just before it, if the step before was one (before: the previous value
\* of row).
Returned(r, member, pos, before) ==
    [kind |-> r.kind, i |-> r.i, obj |-> r.obj, via |-> member, from |-> pos,
     prev |-> IF before.via \in {"at", "iterator"}
              THEN [kind |-> before.kind, via |-> before.via, i |-> before.i,
                    obj |-> before.obj, from |-> before.from]
              ELSE NoCall]

SetHeap(H) ==
    /\ live' = H.live
    /\ result_' = H.result_
    /\ refs_' = H.refs_
    /\ freed' = H.freed
    /\ issued' = H.issued

\* Result r(res, te): the facade wraps a handle the driver just returned,
\* a result set of n rows.
Construct(o, h, n) ==
    /\ ~live[o]
    /\ issued[h].by = 0
    /\ SetHeap(Result_result(Heap, o, h))
    /\ seen' = NoRead
    /\ cur' = [cur EXCEPT ![h] = [n |-> n, next |-> 0]]
    /\ exc' = [exc EXCEPT ![o] = te]
    /\ row' = NoRow
    /\ UNCHANGED <<qvars, fmt, svars>>

\* Result r; with e what OptionalExceptions() sets throw_exceptions() to.
DefaultConstruct(o, e) ==
    /\ ~live[o]
    /\ SetHeap(ResUse_default(Heap, o))
    /\ seen' = NoRead
    /\ exc' = [exc EXCEPT ![o] = e]
    /\ row' = NoRow
    /\ UNCHANGED <<qvars, fmt, svars, cur>>

\* Result r(other);
CopyConstruct(o, other) ==
    /\ ~live[o]
    /\ live[other]
    /\ SetHeap(ResUse_copy(Heap, o, other))
    /\ seen' = NoRead
    /\ exc' = [exc EXCEPT ![o] = exc[other]]
    /\ row' = NoRow
    /\ UNCHANGED <<qvars, fmt, svars, cur>>

\* r = other;
Assign(o, other) ==
    /\ live[o]
    /\ live[other]
    /\ SetHeap(ResUse_assign(Heap, o, other))
    /\ seen' = NoRead
    /\ exc' = [exc EXCEPT ![o] = exc[other]]
    /\ row' = NoRow
    /\ UNCHANGED <<qvars, fmt, svars, cur>>

\* swap(x, y);
Swap(x, y) ==
    /\ live[x]
    /\ live[y]
    /\ x # y
    /\ SetHeap(swap(Heap, x, y))
    /\ seen' = NoRead
    /\ exc' = [exc EXCEPT ![x] = exc[y], ![y] = exc[x]]
    /\ row' = NoRow
    /\ UNCHANGED <<qvars, fmt, svars, cur>>

\* r goes out of scope.
Destroy(o) ==
    /\ live[o]
    /\ SetHeap(ResUse_destroy(Heap, o))
    /\ seen' = NoRead
    /\ exc' = [exc EXCEPT ![o] = TRUE]
    /\ row' = NoRow
    /\ UNCHANGED <<qvars, fmt, svars, cur>>

\* r.fetch_row(): one step of an iteration over r.
FetchRow(o) ==
    /\ live[o]
    /\ seen' = fetch_row(Heap, o)
    /\ LET h == result_[o]
           f == ResUse_fetch_row(o, h, exc[o],
                                 IF h = 0 THEN [n |-> 0, next |-> 0] ELSE cur[h])
       IN  /\ row' = Returned(f.row, "fetch_row",
                               IF h = 0 THEN 0 ELSE cur[h].next, row)
           /\ cur' = IF h = 0 THEN cur ELSE [cur EXCEPT ![h] = f.c]
    /\ UNCHANGED <<qvars, fmt, svars, live, result_, refs_, freed, issued, exc>>

\* r.at(i), r[i] on an initialized result: data_seek(i), then fetch_row().
At(o, i) ==
    /\ live[o]
    /\ result_[o] # 0
    /\ seen' = fetch_row(Heap, o)
    /\ LET h == result_[o]
           f == Result_at(o, h, exc[o], cur[h], i)
       IN  /\ row' = Returned(f.row, "at", cur[h].next, row)
           /\ cur' = [cur EXCEPT ![h] = f.c]
    /\ UNCHANGED <<qvars, fmt, svars, live, result_, refs_, freed, issued, exc>>

\* *it for an iterator of r at index i, begin() <= it < end(): the iterator
\* holds the container and the index, and dereferencing it subscripts the
\* container, which seeks the shared handle again.
Deref(o, i) ==
    /\ live[o]
    /\ result_[o] # 0
    /\ i < Result_size(result_[o], cur[result_[o]])
    /\ seen' = fetch_row(Heap, o)
    /\ LET h == result_[o]
           f == subscript_iterator_deref(o, h, exc[o], cur[h], i)
       IN  /\ row' = Returned(f.row, "iterator", cur[h].next, row)
           /\ cur' = [cur EXCEPT ![h] = f.c]
    /\ UNCHANGED <<qvars, fmt, svars, live, result_, refs_, freed, issued, exc>>

NextRes ==
    \/ \E o \in Objs, h \in Handles : Construct(o, h, 0)
    \/ \E o \in Objs : DefaultConstruct(o, TRUE)
    \/ \E o, other \in Objs : CopyConstruct(o, other)
    \/ \E o, other \in Objs : Assign(o, other)
    \/ \E x, y \in Objs : Swap(x, y)
    \/ \E o \in Objs : Destroy(o)
    \/ \E o \in Objs : FetchRow(o)

InitRes == Init /\ rev = "lib" /\ te = TRUE

SpecRes == InitRes /\ [][NextRes]_vars

(***************************************************************************)
(* Reading rows.  One result set of up to MaxRows rows is held by the      *)
(* objects, which are copied, read with fetch_row() and at(), and          *)
(* destroyed; objects without a handle are default-constructed.            *)
(***************************************************************************)
\* The objects that read rows: a result object and one copy of it.
Copies == {1, 2}

NextRow ==
    \/ \E o \in Copies, n \in RowCounts : Construct(o, 1, n)
    \/ \E o \in Copies, e \in BOOLEAN : DefaultConstruct(o, e)
    \/ \E o, other \in Copies : CopyConstruct(o, other)
    \/ \E o \in Copies : Destroy(o)
    \/ \E o \in Copies : FetchRow(o)
    \/ \E o \in Copies, i \in 0..(MaxRows - 1) : At(o, i)
    \/ \E o \in Copies, i \in 0..(MaxRows - 1) : Deref(o, i)

InitRow == Init /\ rev = "trunk"

SpecRow == InitRow /\ [][NextRow]_vars

\* Template text the caller inserts.
SubPieces == {<<"%", "0", "q">>, <<"a", "%", "1">>}
ExecPieces == {<<"%", "0", "q", "z">>, <<"z", "z", "%", "1">>}

\* Query text and parameter lists the caller passes to an execution.
Texts == {<<"s">>}
ExecVals == {SQLString(<<QUOTE>>)}
ParmLists == {<<>>} \cup {<<v>> : v \in ExecVals}
TextOps == {"execute", "store", "use"}

NextSub ==
    \/ \E t \in SubPieces : Insert(t)
    \/ Parse
    \/ Reset
    \/ \E v \in DefVals : AddDefault(v)
    \/ \E v \in Vals : AddParm(v)
    \/ NewParms
    \/ Str

InitSub == Init /\ te = TRUE

SpecSub == InitSub /\ [][NextSub]_vars

Next ==
    \/ \E t \in ExecPieces : Insert(t)
    \/ Parse
    \/ Reset
    \/ \E v \in DefVals : AddDefault(v)
    \/ \E op \in TextOps, s \in ExecVals : Scalar_lib(op, s)
    \/ StoreNext
    \/ \E op \in TextOps, s \in Texts : Text_trunk(op, s)
    \/ \E op \in TextOps, p \in ParmLists : Parms_trunk(op, p)
    \/ \E op \in TextOps, p \in ParmLists : Parms_v3(op, p)
    \/ \E op \in TextOps, s \in ExecVals : Adapter_v3(op, s)
    \/ \E s \in Texts : Exec(s)
    \/ DriverReturn

Spec == Init /\ [][Next]_vars

(***************************************************************************)
(* Properties.                                                             *)
(***************************************************************************)

\* C1: once a proc() pass has substituted a value V of a parameter list, a
\* second proc() pass over the same list with the same template renders
\* exactly the text of the first pass: V is neither escaped nor quoted a
\* second time.
C1_IdempotentSubstitution ==
    pass.n = 2 => pass.latest = pass.first

\* Two passes were made over a list whose first value, a string holding a
\* quote, went through option q: it is stored escaped and quoted, once.
C1_Witness ==
    /\ pass.n = 2
    /\ rev = "lib"
    /\ Len(parms) >= 1
    /\ parms[1].processed
    /\ parms[1].str = <<QUOTE, BSLASH, QUOTE, QUOTE>>
    /\ \E k \in 1..Len(parse_elems_) :
          parse_elems_[k].option = "q" /\ parse_elems_[k].num = 0

\* C2: proc() takes the value of the placeholder at position N from the
\* call-site list when N is below that list's size, otherwise from the
\* defaults when N is below their size, and otherwise raises BadParamCount;
\* a template with positions 0 and 1 passed one call-site parameter renders
\* the stored default for position 1, and raises BadParamCount when there
\* is no default for position 1.
C2_Resolution ==
    plog.ran =>
      LET ph == SelectSeq(parse_elems_, LAMBDA e : e.num >= 0)
          want(k) == IF ph[k].num < plog.psize THEN "p"
                     ELSE IF ph[k].num < Len(template_defaults) THEN "def"
                     ELSE "none"
          two == /\ Len(ph) = 2
                 /\ ph[1].num = 0
                 /\ ph[2].num = 1
                 /\ ph[2].option = " "
                 /\ plog.psize = 1
      IN  /\ \A k \in 1..Len(plog.src) : plog.src[k] = want(k)
          /\ plog.err <=> (\E k \in 1..Len(ph) : want(k) = "none")
          /\ ~plog.err => Len(plog.src) = Len(ph)
          /\ plog.err <=> last.raised = "BadParamCount"
          /\ (two /\ Len(template_defaults) >= 2) =>
                /\ ~plog.err
                /\ plog.emitted =
                     ph[1].before \o parms[1].str \o ph[2].before
                        \o template_defaults[2].str
                        \o parse_elems_[Len(parse_elems_)].before
          /\ (two /\ Len(template_defaults) < 2) => plog.err

\* A template with positions 0 and 1 was rendered with one call-site
\* parameter: position 0 came from the call site, position 1 from the
\* defaults.
C2_Witness ==
    /\ plog.ran
    /\ ~plog.err
    /\ plog.psize = 1
    /\ plog.src = <<"p", "def">>
    /\ Len(template_defaults) = 2

\* C3: a step whose proc() pass meets a placeholder outside both lists
\* raises BadParamCount, with exceptions enabled or disabled, and hands the
\* driver nothing: no call enters the driver and no text is sent.
C3_ParamCountSurfaced ==
    [][(plog'.ran /\ plog'.err) =>
          /\ last'.raised = "BadParamCount"
          /\ stack' = stack
          /\ wire' = wire]_vars

\* An execution on a facade with exceptions disabled ran into a placeholder
\* with no value and raised BadParamCount.
C3_Witness ==
    /\ ~te
    /\ plog.ran
    /\ plog.err
    /\ last.op \in TextOps
    /\ last.raised = "BadParamCount"
    /\ ~last.sent

\* C4, as the specification words it: with exceptions disabled no execute, store, use or
\* store_next call raises; every failure is a default result whose validity
\* test is false.
C4_NothingRaisedWhenDisabled ==
    (~te /\ last.op \in ExecOps) =>
        /\ last.raised = "none"
        /\ last.cause # "ok" => ~last.valid

\* C4, amended: with exceptions disabled the only error an execute, store,
\* use or store_next call raises is BadParamCount, raised exactly when the
\* template has a placeholder with no value; every other failure is a
\* default result whose validity test is false.
C4_OnlyParamCountRaisedWhenDisabled ==
    (~te /\ last.op \in ExecOps) =>
        /\ last.raised \in {"none", "BadParamCount"}
        /\ last.raised = "BadParamCount" <=> last.cause = "param_count"
        /\ last.cause # "ok" => ~last.valid

\* With exceptions disabled a store() whose statement failed in the driver
\* returned an invalid result and raised nothing.
C4_Witness ==
    /\ ~te
    /\ last.op = "store"
    /\ last.cause = "query_failed"
    /\ last.raised = "none"
    /\ ~last.valid

\* C5: after proc(p) completes without error the buffer holds exactly the
\* text the pass inserted (each segment's literal, then its value, then the
\* trailing literal) and nothing of its earlier content.
C5_BufferIsRendering ==
    (plog.ran /\ ~plog.err) => plog.procbuf = plog.emitted

\* C6: the driver handle of a result set is never released while a live
\* Result / ResUse object holds it, and no read through a live object finds
\* a released handle.
C6_NoReleaseWhileHeld ==
    /\ ~seen.dangling
    /\ \A o \in Objs :
          (live[o] /\ result_[o] # 0) =>
              /\ freed[result_[o]] = 0
              /\ refs_[result_[o]] >= 1

\* A read through a live copy after the object made from the handle was
\* destroyed.
C6_Witness ==
    /\ seen.h # 0
    /\ live[seen.obj]
    /\ result_[seen.obj] = seen.h
    /\ issued[seen.h].by # seen.obj
    /\ ~live[issued[seen.h].by]
    /\ ~seen.dangling

\* C7: mysql_free_result is called for a handle exactly once, when the last
\* object holding it is destroyed or reassigned, however many copies were
\* made; a handle still held, or never handed out, has no release call.
C7_ReleasedExactlyOnce ==
    \A h \in Handles :
        /\ freed[h] <= 1
        /\ issued[h].by = 0 => freed[h] = 0
        /\ issued[h].by # 0 =>
              (freed[h] = 1 <=> ~\E o \in Objs : live[o] /\ result_[o] = h)
        /\ refs_[h] = Cardinality({o \in Objs : live[o] /\ result_[o] = h})

\* A handle that MaxObj objects have held has been released, once, and an
\* object that never held a handle has been destroyed.
C7_Witness ==
    \E h \in Handles :
        /\ freed[h] = 1
        /\ issued[h].shares = MaxObj
        /\ \A o \in Objs : ~live[o]

\* C8: in the revisions that lock, at most one execute / store / use /
\* store_next call of a facade is in the driver at a time, and it holds the
\* lock.
C8_OneInFlight ==
    rev \in {"lib", "trunk"} =>
        /\ Len(stack) <= 1
        /\ stack # <<>> => locked

\* A second call was made while the first was in the driver, and refused.
C8_Witness ==
    /\ rev = "lib"
    /\ Len(stack) = 1
    /\ locked
    /\ last.cause = "lock_failed"

\* C9: a call that finds the lock held does not reach the driver, raises
\* LockFailed when exceptions are enabled and returns an invalid default
\* result when they are disabled, and leaves the lock held.
C9_LockHeldFails ==
    last.cause = "lock_failed" =>
        /\ last.raised = IF te THEN "LockFailed" ELSE "none"
        /\ ~last.valid
        /\ ~last.sent
        /\ locked
        /\ stack # <<>>

\* C10: every call that took the lock has released it when it returns or
\* raises, whatever the driver answered: with no call in the driver the lock
\* is free.
C10_LockReleased ==
    stack = <<>> => ~locked

\* store() got a result handle from the driver and returned with the lock
\* released.
C10_Witness ==
    /\ rev = "lib"
    /\ stack = <<>>
    /\ last.op = "store"
    /\ last.cause = "ok"
    /\ last.sent
    /\ last.valid
    /\ ~locked

\* C11: store() and use() raise nothing when the driver ran the statement,
\* returned no result handle and reports no error: the caller gets an empty
\* result, with exceptions enabled too.
C11_EmptyResultNotRaised ==
    (last.op \in {"store", "use"} /\ last.cause = "empty") =>
        last.raised = "none"

\* C12: store_next() at the end of the result sets, with no error reported
\* by the driver, returns an empty result and raises nothing, whether
\* exceptions are enabled or not; it raises only when the driver reports an
\* error.
C12_EndOfResultsNotRaised ==
    (last.op = "store_next" /\ last.sent) =>
        /\ last.cause = "end_of_results" => last.raised = "none"
        /\ last.raised # "none" =>
              last.cause \in {"next_failed", "result_failed", "end_with_error"}

\* C13: with exceptions enabled, execute(), store() and use() raise BadQuery
\* when the driver fails to run the statement, and store() and use() raise
\* BadQuery when the driver returns no handle while an error is pending; such
\* a call never returns a valid result.
C13_FailureRaisesBadQuery ==
    (te /\ last.op \in TextOps /\ last.sent
        /\ last.cause \in {"query_failed", "result_failed"}) =>
        /\ last.raised = "BadQuery"
        /\ ~last.valid

\* With exceptions enabled, use() of revision lib got no handle from the
\* driver while an error was pending, and raised BadQuery.
C13_Witness ==
    /\ te
    /\ rev = "lib"
    /\ last.op = "use"
    /\ last.sent
    /\ last.cause = "result_failed"
    /\ last.raised = "BadQuery"

(***************************************************************************)
(* Formatting one value.  A caller builds a parameter value from text or   *)
(* from a number, may ask for it not to be escaped, and hands it to        *)
(* pprepare under one of the placeholder options; fmt records the value    *)
(* handed in (arg), the value left behind (S) and the text returned (out). *)
(***************************************************************************)
\* The longest text a formatted value is built from.
MaxVal == 2

FmtChars == {QUOTE, BSLASH, "a"}

FmtTexts == UNION {[1..n -> FmtChars] : n \in 0..MaxVal}

\* Decimal renderings the numeric constructors produce.
FmtNums == UNION {[1..n -> {"4", "7"}] : n \in 1..MaxVal}

\* The option a parsed placeholder carries: an option character of the
\* revision, or a blank when the placeholder has none.
FmtOptions(rv) == OptionChars(rv) \cup {" "}

\* SQLString(const string&), SQLString(const char*)
MakeString(t) ==
    /\ fmt' = [NoFmt EXCEPT !.S = SQLString(t), !.arg = SQLString(t),
                            !.how = "new"]
    /\ UNCHANGED <<qvars, rvars, svars>>

\* SQLString(int) and the other constructors from an arithmetic type
MakeNumber(d) ==
    /\ fmt' = [NoFmt EXCEPT !.S = SQLStringNum(d), !.arg = SQLStringNum(d),
                            !.how = "new"]
    /\ UNCHANGED <<qvars, rvars, svars>>

\* The caller sets the value's dont_escape flag.
SetDontEscape ==
    /\ fmt.how = "new"
    /\ ~fmt.S.dont_escape
    /\ fmt' = [fmt EXCEPT !.S.dont_escape = TRUE, !.arg.dont_escape = TRUE]
    /\ UNCHANGED <<qvars, rvars, svars>>

\* ss = pprepare(option, S, replace)
PPrepareValue(option, replace) ==
    /\ fmt.how # "none"
    /\ \E r \in {PPrepare(rev, option, fmt.S, replace)} :
           fmt' = [S |-> r.S, arg |-> fmt.S, how |-> option,
                   replace |-> replace, out |-> r.out]
    /\ UNCHANGED <<qvars, rvars, svars>>

NextFmt ==
    \/ \E t \in FmtTexts : MakeString(t)
    \/ \E d \in FmtNums : MakeNumber(d)
    \/ SetDontEscape
    \/ \E option \in FmtOptions(rev), replace \in BOOLEAN :
           PPrepareValue(option, replace)

SpecFmt == Init /\ [][NextFmt]_vars

\* C14: under option q a value that is not string-typed renders as exactly
\* its own text, with no quote added and nothing escaped, and a string-typed
\* value (dont_escape not requested) renders as a single quote, its text
\* with a backslash before every quote and backslash, and a single quote.
C14_QuoteEscapeByType ==
    (fmt.how = "q" /\ ~fmt.arg.processed) =>
        /\ ~fmt.arg.is_string => fmt.out = fmt.arg.str
        /\ (fmt.arg.is_string /\ ~fmt.arg.dont_escape) =>
              /\ fmt.out = <<QUOTE>> \o escape_string(fmt.arg.str) \o <<QUOTE>>
              /\ fmt.arg.str = <<QUOTE>> => fmt.out = <<QUOTE, BSLASH, QUOTE, QUOTE>>
              /\ fmt.arg.str = <<"a", BSLASH>> =>
                     fmt.out = <<QUOTE, "a", BSLASH, BSLASH, QUOTE>>

\* A text holding a quote was formatted under q and came back quoted and
\* escaped.
C14_Witness ==
    /\ fmt.how = "q" /\ ~fmt.arg.processed
    /\ fmt.arg.is_string /\ ~fmt.arg.dont_escape
    /\ fmt.arg.str = <<QUOTE>>
    /\ fmt.out = <<QUOTE, BSLASH, QUOTE, QUOTE>>

\* C15: under option q a string-typed value whose dont_escape flag was set
\* renders as a single quote, its text unchanged, and a single quote.
C15_DontEscapeQuotesOnly ==
    (fmt.how = "q" /\ ~fmt.arg.processed
        /\ fmt.arg.is_string /\ fmt.arg.dont_escape) =>
        fmt.out = <<QUOTE>> \o fmt.arg.str \o <<QUOTE>>

\* C16: under option Q a string-typed value renders as a single quote, its
\* text unchanged, and a single quote, and a value that is not string-typed
\* renders as exactly its own text; under a placeholder with no option
\* character every value renders as exactly its own text.
C16_QuoteOnlyAndPlain ==
    /\ (fmt.how = "Q" /\ ~fmt.arg.processed) =>
          /\ fmt.arg.is_string =>
                /\ fmt.out = <<QUOTE>> \o fmt.arg.str \o <<QUOTE>>
                /\ fmt.arg.str = <<QUOTE>> => fmt.out = <<QUOTE, QUOTE, QUOTE>>
          /\ ~fmt.arg.is_string => fmt.out = fmt.arg.str
    /\ fmt.how = " " => fmt.out = fmt.arg.str

\* A text holding a backslash and a quote was formatted under Q and came
\* back between two quotes with nothing escaped.
C16_Witness ==
    /\ fmt.how = "Q" /\ ~fmt.arg.processed /\ fmt.arg.is_string
    /\ fmt.arg.str = <<BSLASH, QUOTE>>
    /\ fmt.out = <<QUOTE, BSLASH, QUOTE, QUOTE>>

\* C17: a str(p) pass that resolves a placeholder from the caller's list
\* leaves that element holding the quoted/escaped text and marked processed,
\* so a pass over a list whose referenced elements are already processed
\* changes nothing; a placeholder resolved from the defaults leaves the
\* defaults list, text and processed flags, exactly as it was.
C17_ReplaceInPlace ==
    [][(plog'.ran /\ ~plog'.err /\ plog'.onparms) =>
          LET ph == SelectSeq(parse_elems_, LAMBDA e : e.num >= 0)
              fromP == {ph[k].num + 1 : k \in {j \in 1..Len(ph) : plog'.src[j] = "p"}}
              first(i) == ph[CHOOSE k \in 1..Len(ph) :
                               /\ ph[k].num + 1 = i
                               /\ \A j \in 1..(k - 1) : ph[j].num + 1 # i]
          IN  /\ template_defaults' = template_defaults
              /\ Len(parms') = Len(parms)
              /\ \A i \in 1..Len(parms) :
                    IF i \in fromP
                    THEN /\ parms'[i].processed
                         /\ parms'[i].str =
                              PPrepare(rev, first(i).option, parms[i], FALSE).out
                         /\ (parms[i] = SQLString(<<QUOTE>>) /\ first(i).option = "q")
                               => parms'[i].str = <<QUOTE, BSLASH, QUOTE, QUOTE>>
                    ELSE parms'[i] = parms[i]
              /\ (\A i \in fromP : parms[i].processed) => parms' = parms]_vars

\* Two passes were made with one call-site value and two defaults: the
\* call-site element holds the escaped, quoted text and is processed, and
\* the default rendered for position 1 is still the value that was stored.
C17_Witness ==
    /\ pass.n = 2
    /\ plog.ran /\ ~plog.err /\ plog.src = <<"p", "def">>
    /\ parms = <<[SQLString(<<QUOTE, BSLASH, QUOTE, QUOTE>>) EXCEPT !.processed = TRUE]>>
    /\ Len(template_defaults) = 2
    /\ template_defaults[2] = SQLString(<<"d">>)

\* C18: when an execute, store or use returns from the driver on a facade
\* with no parsed segments, the facade has been reset (buffer, parsed
\* segments and defaults are empty); when it returns on a facade with parsed
\* segments, the parsed-segment sequence is what it was.
C18_AutoResetPolicy ==
    [][(Len(stack') < Len(stack) /\ last'.op \in TextOps) =>
          IF parse_elems_ = <<>>
          THEN /\ sbuffer_' = <<>>
               /\ parse_elems_' = <<>>
               /\ template_defaults' = <<>>
          ELSE parse_elems_' = parse_elems_]_vars

\* C19: after reset(), from whatever state, the buffer, the parsed-segment
\* sequence and the defaults list are empty; text inserted next becomes the
\* whole buffer and a rendering made right after the reset holds nothing of
\* the earlier query.
C19_ResetClears ==
    [][Reset =>
          /\ sbuffer_' = <<>>
          /\ parse_elems_' = <<>>
          /\ template_defaults' = <<>>
          /\ \A t \in SubPieces : Put(Buf', t).buf = t
          /\ str(rev, Buf', parse_elems_', <<>>, template_defaults').text
                \in {<<>>, <<NUL>>}]_vars

\* A facade whose template was parsed and rendered with a caller's list
\* (the list still holds the processed value) has been reset.
C19_Witness ==
    /\ sbuffer_ = <<>>
    /\ parse_elems_ = <<>>
    /\ template_defaults = <<>>
    /\ Len(parms) >= 1
    /\ parms[1].processed
    /\ last = NoOutcome

\* C20: execute/store/use called with one scalar s, when the parsed template
\* has exactly one placeholder and the recursion guard is not engaged, hand
\* the driver the template's text with s formatted as parameter 0 in the
\* placeholder's place; in every other case they hand the driver the text
\* of s as the whole query.  (Nothing is handed over when the connection's
\* lock is held or when rendering raises BadParamCount.)
C20_ScalarDispatch ==
    [][\A op \in TextOps, s \in ExecVals :
          (Scalar_lib(op, s) \/ Adapter_v3(op, s)) =>
             LET tmpl == Len(parse_elems_) = 2 /\ ~processing_
                 e == parse_elems_[1]
                 val == IF e.num = 0 THEN s ELSE template_defaults[e.num + 1]
                 rendering == e.before \o PPrepare(rev, e.option, val, FALSE).out
                                  \o parse_elems_[2].before
                 sent == /\ stack' = Append(stack, [op |-> op, af |-> tmpl])
                         /\ last' = NoOutcome
             IN  \/ last'.cause = "lock_failed" /\ stack' = stack /\ wire' = wire
                 \/ /\ tmpl
                    /\ e.num > 0 /\ e.num >= Len(template_defaults)
                    /\ last'.raised = "BadParamCount"
                    /\ stack' = stack /\ wire' = wire
                 \/ /\ tmpl
                    /\ e.num = 0 \/ e.num < Len(template_defaults)
                    /\ sent
                    /\ wire' = rendering
                    /\ (e.num = 0 /\ e.option = "q" /\ s = SQLString(<<QUOTE>>)) =>
                          wire' = e.before \o <<QUOTE, BSLASH, QUOTE, QUOTE>>
                                     \o parse_elems_[2].before
                 \/ /\ ~tmpl
                    /\ sent
                    /\ wire' = s.str]_vars

\* A scalar call on the template %0qz is in the driver with the rendered
\* text, the guard engaged.
C20_Witness ==
    /\ rev \in {"lib", "v3"}
    /\ Len(parse_elems_) = 2
    /\ stack = <<[op |-> "store", af |-> TRUE]>>
    /\ processing_
    /\ wire = <<QUOTE, BSLASH, QUOTE, QUOTE, "z">>

(***************************************************************************)
(* Parsing templates.  The caller streams a text into the facade one       *)
(* character at a time and parses it.                                      *)
(***************************************************************************)
\* The characters a template is written with: the percent sign, two digits,
\* the colon of a name, a name character and an option character.
ParseChars == {"%", "1", "5", ":", "n", "q"}

NextParse ==
    \/ \E c \in ParseChars : Insert(<<c>>)
    \/ Parse

InitParse == Init /\ te = TRUE

SpecParse == InitParse /\ [][NextParse]_vars

\* C22: after parse() exactly one parsed segment has position -1, the last
\* one, and every other segment has a non-negative position.
C22_OneTrailingSegment ==
    parse_elems_ # <<>> =>
        /\ parse_elems_[Len(parse_elems_)].num = -1
        /\ \A k \in 1..(Len(parse_elems_) - 1) : parse_elems_[k].num >= 0

\* C23: in every reachable state the parsed-segment sequence is empty or
\* has at least two elements, a placeholder segment and the trailing one.
C23_EmptyOrTemplate ==
    \/ parse_elems_ = <<>>
    \/ /\ Len(parse_elems_) >= 2
       /\ \E k \in 1..(Len(parse_elems_) - 1) :
             is_placeholder(rev, parse_elems_[k].num)

C26_ThreeDigitPosition ==
    LET text == CStr(sbuffer_)
    IN  (parse_elems_ # <<>> /\ CharAt(text, 1) = "%" /\ isdigit(CharAt(text, 2))) =>
            LET d(i) == DigitVal(text[i])
                value == IF ~isdigit(CharAt(text, 3)) THEN d(2)
                         ELSE IF ~isdigit(CharAt(text, 4)) THEN d(2) * 10 + d(3)
                         ELSE d(2) * 100 + d(3) * 10 + d(4)
                fourth == /\ isdigit(CharAt(text, 3))
                          /\ isdigit(CharAt(text, 4))
                          /\ isdigit(CharAt(text, 5))
            IN  /\ parse_elems_[1].num = value
                /\ fourth =>
                      /\ Len(parse_elems_) >= 2
                      /\ parse_elems_[2].before # <<>>
                      /\ parse_elems_[2].before[1] = text[5]

(***************************************************************************)
(* Templates with literal percent signs and named placeholders: the text   *)
(* is streamed in pieces, parsed and rendered with the caller's list.      *)
(***************************************************************************)
TmplPieces == {<<"n", "%", "%">>, <<"%", "1", ":", "n">>, <<"%", "1">>}

NextTmpl ==
    \/ \E t \in TmplPieces : Insert(t)
    \/ Parse
    \/ Reset
    \/ \E v \in Vals : AddParm(v)
    \/ NewParms
    \/ Str

SpecTmpl == InitParse /\ [][NextTmpl]_vars

\* C21: parse() turns every doubled percent sign into one literal percent
\* sign and records no placeholder for it: a template without a digit, whose
\* percent signs are all doubled, parses to the trailing segment alone, and
\* rendering it yields the text with each %% replaced by % and every other
\* character kept.
C21_PercentEscape ==
    [][LET RECURSIVE un(_)
           un(t) == IF t = <<>> THEN <<>>
                    ELSE IF Len(t) >= 2 /\ t[1] = "%" /\ t[2] = "%"
                    THEN <<"%">> \o un(SubSeq(t, 3, Len(t)))
                    ELSE <<t[1]>> \o un(Tail(t))
           text == CStr(sbuffer_)
           plain(t) == \A i \in 1..Len(t) : ~isdigit(t[i])
       IN  /\ (parse_elems_ = <<>> /\ parse_elems_' # <<>> /\ plain(text)) =>
                 /\ parse_elems_' = <<SQLParseElement(un(text), " ", -1)>>
                 /\ text = <<"n", "%", "%">> =>
                        parse_elems_'[1].before = <<"n", "%">>
           /\ (plog'.ran /\ Len(parse_elems_) = 1) =>
                 /\ ~plog'.err
                 /\ plog'.emitted = parse_elems_[1].before
                 /\ CStr(sbuffer_') = parse_elems_[1].before]_vars

\* The template n%%n%% was parsed and rendered as n%n%.
C21_Witness ==
    /\ parse_elems_ = <<SQLParseElement(<<"n", "%", "n", "%">>, " ", -1)>>
    /\ plog.ran
    /\ plog.emitted = <<"n", "%", "n", "%">>
    /\ CStr(sbuffer_) = <<"n", "%", "n", "%">>

C28_IndexedAccess ==
    [][\A o \in Objs, i \in 0..(MaxRows - 1) :
          ( /\ At(o, i) \/ Deref(o, i)
            /\ i < cur[result_[o]].n )
          => /\ row'.kind = "row"
             /\ row'.i = i
             /\ row'.obj = o]_vars

\* An iterator of one copy was dereferenced at the first row after accesses
\* had left the shared cursor at the end of the rows, and a second copy
\* shares the handle.
C28_Witness ==
    /\ row.via = "iterator"
    /\ row.kind = "row"
    /\ row.i = 0
    /\ row.from = MaxRows
    /\ \E other \in Objs :
          /\ other # row.obj
          /\ live[other]
          /\ result_[other] = result_[row.obj]

\* C29: all copies of a Result share one handle and so one cursor: after
\* at(i) through one copy, the next fetch_row() through another copy of
\* the same result returns row i+1, or the empty row when i is the last
\* row, and not the row the cursor stood at before the at(i) call.
C29_SharedCursor ==
    ( /\ row.via = "fetch_row"
      /\ row.prev.via \in {"at", "iterator"}
      /\ row.prev.kind = "row"
      /\ row.prev.obj # row.obj
      /\ result_[row.obj] # 0
      /\ result_[row.prev.obj] = result_[row.obj]
      /\ row.prev.i < cur[result_[row.obj]].n )
    => IF row.prev.i + 1 < cur[result_[row.obj]].n
       THEN row.kind = "row" /\ row.i = row.prev.i + 1
       ELSE row.kind = "empty"

\* at(0) through one copy found the cursor at row 0, and the fetch_row()
\* through the other copy that followed returned row 1.
C29_Witness ==
    /\ row.via = "fetch_row"
    /\ row.prev.via = "at"
    /\ row.prev.kind = "row"
    /\ row.prev.obj # row.obj
    /\ result_[row.obj] # 0
    /\ result_[row.prev.obj] = result_[row.obj]
    /\ row.prev.i = 0
    /\ row.prev.from = 0
    /\ row.kind = "row"
    /\ row.i = 1

\* C30: within one facade, in every execution through a template overload,
\* proc() runs only on a non-empty sequence of parsed segments, which only
\* parse() produces; the driver is handed the text only after proc() has
\* completed, and it is the text proc() rendered; and a result object that
\* holds a handle is returned only after the driver reported that the
\* statement was sent successfully.
C30_Ordering ==
    [][LET TemplateCall ==
               \/ \E op \in TextOps, s \in ExecVals : Scalar_lib(op, s)
               \/ \E op \in TextOps, p \in ParmLists : Parms_trunk(op, p)
               \/ \E op \in TextOps, p \in ParmLists : Parms_v3(op, p)
               \/ \E op \in TextOps, s \in ExecVals : Adapter_v3(op, s)
       IN  /\ (parse_elems_' # parse_elems_ /\ parse_elems_' # <<>>) => Parse
           /\ (plog'.ran /\ TemplateCall)
                 => /\ parse_elems_ # <<>>
                    /\ Len(stack') > Len(stack)
                          => ~plog'.err /\ wire' = plog'.emitted
                    /\ plog'.err => stack' = stack /\ wire' = wire
           /\ (last' # last /\ last'.valid /\ last'.op \in {"store", "use"})
                 => /\ DriverReturn
                    /\ last'.sent
                    /\ last'.cause = "ok"]_vars

\* store() through a template overload returned a result with a handle: the
\* template has its two segments, the driver was handed the rendering with
\* the substituted value in it, and the driver reported success.
C30_Witness ==
    /\ last.op = "store"
    /\ last.valid
    /\ last.sent
    /\ last.cause = "ok"
    /\ Len(parse_elems_) = 2
    /\ Len(wire) > 1
    /\ \E k \in 1..Len(wire) : wire[k] = QUOTE
    /\ stack = <<>>

(***************************************************************************)
(* Building a value from an integer.  Each constructor prints the number   *)
(* with snprintf into a local array and assigns the array to the string.   *)
(* Values of the types up to short are integers; values of the wider types *)
(* are a sign and the magnitude in groups of six decimal digits, most      *)
(* significant group first.                                                *)
(***************************************************************************)
\* The decimal digits of a natural number, most significant first.
RECURSIVE DecimalDigits(_)
DecimalDigits(n) ==
    IF n < 10 THEN <<Digits[n + 1]>>
    ELSE Append(DecimalDigits(n \div 10), Digits[(n % 10) + 1])

\* The digits of a magnitude given in groups of six: the groups below the
\* first keep their leading zeros.
RECURSIVE GroupDigits(_)
GroupDigits(limbs) ==
    IF Len(limbs) = 1 THEN DecimalDigits(limbs[1])
    ELSE LET d == DecimalDigits(limbs[Len(limbs)])
         IN  GroupDigits(SubSeq(limbs, 1, Len(limbs) - 1))
                 \o [k \in 1..(6 - Len(d)) |-> "0"] \o d

\* snprintf(s, size, format, v): v printed as the conversion has it, of
\* which at most size - 1 characters are stored before the terminator; the
\* rest of the output is dropped.
snprintf(size, format, v) ==
    LET text ==
            CASE format = "%hd" ->
                   IF v < 0 THEN <<"-">> \o DecimalDigits(0 - v)
                   ELSE DecimalDigits(v)
              [] format = "%hu" -> DecimalDigits(v % 65536)
              [] format \in {"%d", "%u", "%lld", "%llu"} ->
                   IF v.neg THEN <<"-">> \o GroupDigits(v.limbs)
                   ELSE GroupDigits(v.limbs)
    IN  IF Len(text) < size THEN text ELSE SubSeq(text, 1, size - 1)

\* SQLString(char): char s[6]; "%hd" of static_cast<short int>(i).
SQLString_char(i) == SQLStringNum(snprintf(6, "%hd", i))

\* SQLString(unsigned char): char s[6]; "%hu" of static_cast<short int>(i).
SQLString_uchar(i) == SQLStringNum(snprintf(6, "%hu", i))

\* SQLString(short int): char s[6]; "%hd".
SQLString_short(i) == SQLStringNum(snprintf(6, "%hd", i))

\* SQLString(unsigned short int): char s[6]; "%hu".
SQLString_ushort(i) == SQLStringNum(snprintf(6, "%hu", i))

\* SQLString(int): char s[22]; "%d".
SQLString_int(i) == SQLStringNum(snprintf(22, "%d", i))

\* SQLString(unsigned int): char s[22]; "%u".
SQLString_uint(i) == SQLStringNum(snprintf(22, "%u", i))

\* SQLString(longlong): char s[22]; "%lld".
SQLString_longlong(i) == SQLStringNum(snprintf(22, "%lld", i))

\* SQLString(ulonglong): char s[22]; "%llu".
SQLString_ulonglong(i) == SQLStringNum(snprintf(22, "%llu", i))

\* Every value of a type up to short; char is signed or unsigned as the
\* build has it.
NarrowValues ==
    [char |-> -128..255, uchar |-> 0..255, short |-> -32768..32767,
     ushort |-> 0..65535]

\* Values of the wider types: the ends of each range, zero, and values
\* whose lower groups begin with zeros.
WideValues ==
    LET Wide(neg, limbs) == [neg |-> neg, limbs |-> limbs]
        common == {Wide(FALSE, <<0>>), Wide(FALSE, <<7>>),
                   Wide(FALSE, <<1, 0>>), Wide(FALSE, <<12, 3405>>)}
    IN  [int |-> common \cup
                 {Wide(TRUE, <<2147, 483648>>), Wide(FALSE, <<2147, 483647>>),
                  Wide(TRUE, <<1>>), Wide(TRUE, <<1, 0>>)},
         uint |-> common \cup {Wide(FALSE, <<4294, 967295>>)},
         longlong |-> common \cup
                 {Wide(TRUE, <<9, 223372, 36854, 775808>>),
                  Wide(FALSE, <<9, 223372, 36854, 775807>>),
                  Wide(TRUE, <<1>>), Wide(TRUE, <<1, 0, 0>>)},
         ulonglong |-> common \cup
                 {Wide(FALSE, <<18, 446744, 73709, 551615>>)}]

\* SQLString s(i) for an i of a type up to short; fmt keeps the type and
\* the value next to the string built.
FromNarrow ==
    /\ fmt.how = "none"
    /\ \E type \in DOMAIN NarrowValues : \E i \in NarrowValues[type] :
         \E S \in {CASE type = "char" -> SQLString_char(i)
                     [] type = "uchar" -> SQLString_uchar(i)
                     [] type = "short" -> SQLString_short(i)
                     [] type = "ushort" -> SQLString_ushort(i)} :
             fmt' = [S |-> S, arg |-> S, how |-> "number", replace |-> FALSE,
                     out |-> <<>>, type |-> type, value |-> i]
    /\ UNCHANGED <<qvars, rvars, svars>>

\* SQLString s(i) for an i of a wider type.
FromWide ==
    /\ fmt.how = "none"
    /\ \E type \in DOMAIN WideValues : \E i \in WideValues[type] :
         \E S \in {CASE type = "int" -> SQLString_int(i)
                     [] type = "uint" -> SQLString_uint(i)
                     [] type = "longlong" -> SQLString_longlong(i)
                     [] type = "ulonglong" -> SQLString_ulonglong(i)} :
             fmt' = [S |-> S, arg |-> S, how |-> "number", replace |-> FALSE,
                     out |-> <<>>, type |-> type, value |-> i]
    /\ UNCHANGED <<qvars, rvars, svars>>

SpecNum == InitRes /\ [][FromNarrow \/ FromWide]_vars

\* C31: a value built from any value of a supported integer type holds
\* exactly the decimal text of that value, with is_string, dont_escape and
\* processed all false; the text read back as a number is the value, so
\* distinct values of one type have distinct texts and no digit is lost.
C31_ExactDecimal ==
    LET RECURSIVE DigitsValue(_)
        DigitsValue(t) ==
            IF t = <<>> THEN 0
            ELSE 10 * DigitsValue(SubSeq(t, 1, Len(t) - 1))
                     + DigitVal(t[Len(t)])
        RECURSIVE DigitsGroups(_)
        DigitsGroups(t) ==
            IF Len(t) <= 6 THEN <<DigitsValue(t)>>
            ELSE Append(DigitsGroups(SubSeq(t, 1, Len(t) - 6)),
                        DigitsValue(SubSeq(t, Len(t) - 5, Len(t))))
        neg(t) == t # <<>> /\ t[1] = "-"
        digits(t) == IF neg(t) THEN Tail(t) ELSE t
    IN  fmt.how = "number" =>
            /\ ~fmt.S.is_string
            /\ ~fmt.S.dont_escape
            /\ ~fmt.S.processed
            /\ IF fmt.type \in DOMAIN NarrowValues
               THEN fmt.value = IF neg(fmt.S.str)
                                THEN 0 - DigitsValue(digits(fmt.S.str))
                                ELSE DigitsValue(fmt.S.str)
               ELSE fmt.value = [neg |-> neg(fmt.S.str),
                                 limbs |-> DigitsGroups(digits(fmt.S.str))]

(***************************************************************************)
(* SsqlsBase: the output mode.  The mode accessors set output_mode_; the   *)
(* stream insertion operator inserts the list the mode names and sets the  *)
(* mode back.  The lists themselves are rendered by the leaf class; os     *)
(* keeps which list each insertion put into the stream.                    *)
(***************************************************************************)
\* The most insertions into one stream.
MaxStream == 4

\* sb.equal_list()
equal_list ==
    /\ output_mode_' = "om_equal_list"
    /\ asked' = "om_equal_list"
    /\ UNCHANGED <<qvars, rvars, fmt, os>>

\* sb.name_list()
name_list ==
    /\ output_mode_' = "om_name_list"
    /\ asked' = "om_name_list"
    /\ UNCHANGED <<qvars, rvars, fmt, os>>

\* sb.value_list()
value_list ==
    /\ output_mode_' = "om_value_list"
    /\ asked' = "om_value_list"
    /\ UNCHANGED <<qvars, rvars, fmt, os>>

\* os << sb that leaves the mode as it found it.
operator_shl_keeps_mode ==
    /\ Len(os) < MaxStream
    /\ os' = Append(os, CASE output_mode_ = "om_equal_list" -> "equal_list"
                          [] output_mode_ = "om_name_list" -> "name_list"
                          [] output_mode_ = "om_value_list" -> "value_list")
    /\ output_mode_' = output_mode_
    /\ asked' = "none"
    /\ UNCHANGED <<qvars, rvars, fmt>>

\* os << sb
operator_shl ==
    /\ Len(os) < MaxStream
    /\ os' = Append(os, CASE output_mode_ = "om_equal_list" -> "equal_list"
                          [] output_mode_ = "om_name_list" -> "name_list"
                          [] output_mode_ = "om_value_list" -> "value_list")
    /\ output_mode_' = "om_value_list"
    /\ asked' = "none"
    /\ UNCHANGED <<qvars, rvars, fmt>>

NextSsqls ==
    \/ equal_list
    \/ name_list
    \/ value_list
    \/ operator_shl

SpecSsqls == InitRes /\ [][NextSsqls]_vars

\* C32: after every stream insertion of an SsqlsBase object its output mode
\* is value-list again; the insertion puts into the stream the list of the
\* mode that was selected last before it, and an insertion with no mode
\* selected since the insertion before it puts the value list: a selected
\* mode applies to exactly one insertion.
C32_OneShotMode ==
    [][operator_shl =>
          /\ output_mode_' = "om_value_list"
          /\ os'[Len(os')] = CASE asked = "om_equal_list" -> "equal_list"
                               [] asked = "om_name_list" -> "name_list"
                               [] asked = "om_value_list" -> "value_list"
                               [] asked = "none" -> "value_list"]_vars

\* A name list was inserted, then a value list with no mode selected in
\* between, then an equal list; the mode is value-list again.
C32_Witness ==
    /\ os = <<"name_list", "value_list", "equal_list">>
    /\ asked = "none"
    /\ output_mode_ = "om_value_list"

\* C33: a single-scalar execute/store/use call on a one-placeholder
\* template with the recursion guard disengaged engages the guard, renders
\* the text and hands it on by the whole-query-text path, the guard staying
\* engaged while that nested call is in the driver; a scalar call that finds
\* the guard engaged (or no one-placeholder template) takes the
\* whole-query-text path itself, renders nothing and leaves the guard
\* alone; the guard is disengaged when the outer call returns, and at once
\* when it raises (BadParamCount while rendering, or a failed lock); so no
\* call is pending with the guard engaged and every later call starts with
\* the guard disengaged.
C33_RecursionGuard ==
    [][LET ScalarCall ==
               \/ \E op \in TextOps, s \in ExecVals : Scalar_lib(op, s)
               \/ \E op \in TextOps, s \in ExecVals : Adapter_v3(op, s)
           entered == Len(stack') > Len(stack)
       IN  /\ (rev \in {"lib", "v3"} /\ ScalarCall)
                 => IF Len(parse_elems_) = 2 /\ ~processing_
                    THEN /\ plog'.ran
                         /\ IF entered
                            THEN /\ processing_'
                                 /\ stack'[Len(stack')].af
                                 /\ wire' = plog'.emitted
                            ELSE /\ ~processing_'
                                 /\ last'.cause \in {"param_count",
                                                     "lock_failed"}
                    ELSE /\ ~plog'.ran
                         /\ processing_' = processing_
                         /\ entered => ~stack'[Len(stack')].af
           /\ (stack # <<>> /\ stack[Len(stack)].af /\ DriverReturn)
                 => ~processing_'
           /\ stack' = <<>> => ~processing_']_vars

\* Revision lib: a scalar call on a one-placeholder template raised
\* BadParamCount while rendering, and the guard is disengaged.
C33_Witness ==
    /\ rev = "lib"
    /\ Len(parse_elems_) = 2
    /\ plog.ran
    /\ plog.err
    /\ plog.psize = 1
    /\ last.raised = "BadParamCount"
    /\ ~processing_
    /\ stack = <<>>

\* C34: store_next() raises EndOfResultSets only when exceptions are enabled
\* and the next-result step answered that no result sets remain; when that
\* step answered with an error it raises BadQuery instead; with exceptions
\* disabled it returns an empty result in both cases and raises nothing.
C34_EndOfResultSets ==
    (last.op = "store_next" /\ last.sent) =>
        /\ last.raised = "EndOfResultSets"
              => te /\ last.cause \in {"end_of_results", "end_with_error"}
        /\ last.cause = "next_failed"
              => /\ last.raised = (IF te THEN "BadQuery" ELSE "none")
                 /\ ~last.valid
        /\ (~te /\ last.cause \in {"end_of_results", "end_with_error",
                                   "next_failed"})
              => last.raised = "none" /\ ~last.valid

\* Revision lib, exceptions enabled: store_next() found no result sets
\* left and raised EndOfResultSets.
C34_Witness ==
    /\ rev = "lib"
    /\ te
    /\ last.op = "store_next"
    /\ last.sent
    /\ last.cause = "end_of_results"
    /\ last.raised = "EndOfResultSets"

\* C35: reset() leaves the position-to-name map and the name-to-position
\* map unchanged, and so does parse() of a template that names no position:
\* names recorded by parse() of an earlier template are still present after
\* reset() and after parse() of a new template without them.
C35_ResetKeepsNames ==
    [][LET text == CStr(sbuffer_)
           unnamed == \A k \in 1..Len(text) : text[k] # ":"
       IN  /\ Reset => /\ parsed_names_' = parsed_names_
                       /\ parsed_nums_' = parsed_nums_
           /\ (unnamed /\ Parse) => /\ parsed_names_' = parsed_names_
                                    /\ parsed_nums_' = parsed_nums_]_vars

\* The name n of position 1 is still recorded although the template parsed
\* now has no named placeholder: it was recorded for an earlier template,
\* before reset().
C35_Witness ==
    /\ parsed_names_ = <<<<>>, <<"n">>>>
    /\ <<"n">> \in DOMAIN parsed_nums_
    /\ parsed_nums_[<<"n">>] = 1
    /\ parse_elems_ # <<>>
    /\ \A k \in 1..Len(sbuffer_) : sbuffer_[k] # ":"

\* C36: when proc() raises BadParamCount the facade is not put back as it
\* was before the call: the buffer holds the text rendered up to the
\* failing placeholder followed by " ERROR", and the values of the caller's
\* list that were substituted in place earlier in the same pass stay
\* modified and marked processed.
C36_NoRollback ==
    (plog.ran /\ plog.err /\ plog.onparms) =>
        LET ph == SelectSeq(parse_elems_,
                            LAMBDA e : is_placeholder(rev, e.num))
            n == Len(plog.src)
        IN  /\ n >= 1
            /\ plog.src[n] = "none"
            /\ Len(plog.emitted) >= Len(ERROR_TEXT)
            /\ SubSeq(plog.emitted, Len(plog.emitted) - Len(ERROR_TEXT) + 1,
                      Len(plog.emitted)) = ERROR_TEXT
            /\ CStr(sbuffer_) = plog.emitted
            /\ \A k \in 1..(n - 1) :
                  plog.src[k] = "p" => parms[ph[k].num + 1].processed

\* C37: exec(text) neither takes nor tests the lock: it can run in every
\* state, also while an execute/store/use/store_next call holds the lock and
\* is in the driver; the text it is given is what the driver receives, the
\* outcome is the driver's, and the lock and the pending calls are left as
\* they were.
C37_ExecIgnoresLock ==
    /\ [](locked => ENABLED (\E s \in Texts : Exec(s)))
    /\ [][\A s \in Texts :
            Exec(s) => /\ locked' = locked
                       /\ stack' = stack
                       /\ wire' = s
                       /\ last'.op = "exec"
                       /\ last'.sent
                       /\ last'.cause # "lock_failed"]_vars

\* exec() has run while a call holding the lock was in the driver.
C37_Witness ==
    /\ locked
    /\ stack # <<>>
    /\ last.op = "exec"
    /\ last.sent

(***************************************************************************)
(* Named placeholders over several templates: the facade is reset between  *)
(* templates, and reset() keeps parsed_names_ and parsed_nums_.            *)
(***************************************************************************)
SpecNames ==
    /\ InitParse
    /\ [][\/ \E t \in {<<"%", "1", ":", "n">>, <<"%", "2", ":", "n">>,
                        <<"%", "1", ":", "m">>} : Insert(t)
          \/ Parse
          \/ Reset]_vars

\* C38: parsed_nums_ and parsed_names_ are mutually inverse on named
\* positions: every name k of parsed_nums_ is the entry of parsed_names_ at
\* index parsed_nums_[k], and every non-empty entry of parsed_names_, at
\* index i, is sent to i by parsed_nums_.
C38_MutuallyInverse ==
    /\ \A k \in DOMAIN parsed_nums_ :
          /\ parsed_nums_[k] + 1 \in 1..Len(parsed_names_)
          /\ parsed_names_[parsed_nums_[k] + 1] = k
    /\ \A i \in 1..Len(parsed_names_) :
          parsed_names_[i] # <<>> =>
              /\ parsed_names_[i] \in DOMAIN parsed_nums_
              /\ parsed_nums_[parsed_names_[i]] = i - 1

(***************************************************************************)
(* Templates that name position 0 more than once, with and without the     *)
(* option q, rendered with the caller's list.                              *)
(***************************************************************************)
SpecOpts ==
    /\ InitParse
    /\ [][\/ \E t \in {<<"%", "0", "q">>, <<"%", "0">>} : Insert(t)
          \/ Parse
          \/ \E v \in Vals : AddParm(v)
          \/ NewParms
          \/ Str]_vars

\* C39: when position 0 occurs twice in a template with different options
\* and is resolved from the caller's list, both occurrences render the text
\* the first occurrence's option gives the value: the value as it stands if
\* an earlier pass processed it, its formatting by the first option
\* otherwise.  The second occurrence's own option is not applied, the value
\* is left processed with that text, and a later pass over the same list
\* renders the same text again.
C39_FirstOptionWins ==
    [][(/\ Len(parse_elems_) = 3
        /\ parse_elems_[1].num = 0
        /\ parse_elems_[2].num = 0
        /\ parse_elems_[1].option # parse_elems_[2].option
        /\ Len(parms) >= 1
        /\ Str)
          => LET S == parms[1]
                 e == parse_elems_
                 quoted == IF rev = "v3" THEN quote_q(S) ELSE S.is_string
                 escaped == IF rev = "v3" THEN escape_q(S) ELSE S.is_string
                 text == IF S.processed \/ e[1].option # "q" THEN S.str
                         ELSE (IF quoted THEN <<QUOTE>> ELSE <<>>)
                              \o (IF escaped THEN escape_string(S.str)
                                  ELSE S.str)
                              \o (IF quoted THEN <<QUOTE>> ELSE <<>>)
             IN  /\ plog'.emitted = e[1].before \o text \o e[2].before
                                       \o text \o e[3].before
                 /\ parms'[1].processed
                 /\ parms'[1].str = text
                 /\ pass.n >= 1 => /\ plog'.emitted = pass.latest
                                   /\ plog'.emitted = pass.first]_vars

\* The template %0%0q has been rendered twice with a list holding one quote
\* character: both passes gave the two raw characters, the option q of the
\* second occurrence never applied.
C39_Witness ==
    /\ Len(parse_elems_) = 3
    /\ parse_elems_[1].option = " "
    /\ parse_elems_[2].option = "q"
    /\ pass.n = 2
    /\ pass.first = <<QUOTE, QUOTE>>
    /\ plog.emitted = <<QUOTE, QUOTE>>
    /\ parms[1].processed

\* C40: after store() or use() has returned an empty result because the
\* statement ran, gave no result set and left no error pending, copacetic_
\* is true; and after a store() or use() call copacetic_ is false only if
\* that call failed.
C40_EmptyIsSuccess ==
    (last.op \in {"store", "use"} /\ last.cause \in {"ok", "empty"})
        => copacetic_

====
